---- MODULE Spec2Model ----
(***************************************************************************)
(* Model of the SQL dump indexer: the chunked scanner of sql_indexer.c     *)
(* (process_sql_file / process_chunk / parse_table_columns), the index     *)
(* file codec (write_index_to_file / read_index_from_file), the row sample *)
(* locator (get_first_row_sample), the load-or-scan decision of main and   *)
(* the command loop of sql_cli.c (run_cli).                                *)
(*                                                                         *)
(* Text is a sequence of one-character strings.  A C pointer into a buffer *)
(* is the 0-based offset from the buffer start, so the byte at offset p is *)
(* buf[p + 1]; a NULL offset is -1.  A nullable object or string is NULL   *)
(* (the empty tuple) or Ptr(v) (a one-element tuple holding the value).    *)
(***************************************************************************)
EXTENDS Integers, Sequences, FiniteSets, TLC

VARIABLES
    sql_file,        \* content of the SQL dump on disk
    chunk_size,      \* number of bytes asked of each fread (CHUNK_SIZE)
    faults,          \* the calls that may fail: "none", "fatal" (fopen,
                     \* fread, the buffer, an index entry) or "column"
                     \* (the column array of a table)
    fault_hit,       \* a call of the current scan has failed
    ctx,             \* ParsingContext of the running scan
    bytes_read,      \* local of process_sql_file: result of the last fread
    pc,              \* position of the program
    index_file,      \* content of <sql_file>.index: NULL when absent
    sha256_support,  \* main: command_exists("sha256sum")
    run,             \* number of the current program run (1-based)
    mainv,           \* locals of main
    loaded,          \* read_index_from_file: its locals and the index it builds
    history,         \* what the current run has done so far
    prev,            \* what the previous run left behind
    sample_in,       \* arguments of get_first_row_sample
    sample,          \* locals and result of get_first_row_sample
    cli              \* run_cli: the table count, page, selected_table and
                     \* the line read last

scan_vars == <<sql_file, chunk_size, faults, fault_hit, ctx, bytes_read>>
main_vars == <<index_file, sha256_support, run, mainv, loaded, history, prev>>
sample_vars == <<sample_in, sample>>

vars == <<sql_file, chunk_size, faults, fault_hit, ctx, bytes_read, pc, index_file,
          sha256_support, run, mainv, loaded, history, prev,
          sample_in, sample, cli>>

(***************************************************************************)
(* Nullable values and small helpers                                       *)
(***************************************************************************)
NULL == <<>>
Ptr(v) == <<v>>
Deref(p) == p[1]

\* F applied to the value of v, v being computed once: a local of the C
\* code that is assigned once and read several times
Let(v, F(_)) == CHOOSE r \in {F(x) : x \in {v}} : TRUE

Min(S) == Let(S, LAMBDA T : CHOOSE x \in T : \A y \in T : x <= y)
Max(S) == Let(S, LAMBDA T : CHOOSE x \in T : \A y \in T : x >= y)
\* the set of the elements of a sequence
Range(s) == {s[i] : i \in 1..Len(s)}
Take(s, n) == IF Len(s) <= n THEN s ELSE SubSeq(s, 1, n)

\* the smallest (largest) member of hits, or none when hits is empty
FirstOf(hits, none) == Let(hits, LAMBDA h : IF h = {} THEN none ELSE Min(h))
LastOf(hits, none) == Let(hits, LAMBDA h : IF h = {} THEN none ELSE Max(h))

(***************************************************************************)
(* <ctype.h> and <string.h> as the code uses them                          *)
(***************************************************************************)
\* the backtick character (a string literal cannot hold it)
BT == "<backtick>"

IsSpace(c) == c \in {" ", "\t", "\n", "\r", "\f"}

LowerLetters == <<"a", "b", "c", "d", "e", "f", "g", "h", "i", "j", "k", "l", "m", "n", "o", "p", "q", "r", "s", "t", "u", "v", "w", "x", "y", "z">>
UpperLetters == <<"A", "B", "C", "D", "E", "F", "G", "H", "I", "J", "K", "L", "M", "N", "O", "P", "Q", "R", "S", "T", "U", "V", "W", "X", "Y", "Z">>

ToLower(c) ==
    IF \E i \in 1..26 : UpperLetters[i] = c
    THEN LowerLetters[CHOOSE i \in 1..26 : UpperLetters[i] = c]
    ELSE c

\* strcasecmp(a, b) == 0
strcasecmp_eq(a, b) ==
    /\ Len(a) = Len(b)
    /\ \A i \in 1..Len(a) : ToLower(a[i]) = ToLower(b[i])

\* strncasecmp(s + p, w, Len(w)) == 0 on a buffer that ends (or holds its
\* terminating NUL) at offset Len(s)
strncasecmp_eq(s, p, w) ==
    /\ p + Len(w) <= Len(s)
    /\ \A i \in 1..Len(w) : ToLower(s[p + i]) = ToLower(w[i])

\* strncmp(s + p, w, Len(w)) == 0
strncmp_eq(s, p, w) ==
    /\ p + Len(w) <= Len(s)
    /\ \A i \in 1..Len(w) : s[p + i] = w[i]

\* strchr(s + from, c) as a 1-based position in s, 0 when absent
strchr(s, from, c) == FirstOf({i \in from..Len(s) : s[i] = c}, 0)

\* strrchr(s + from, c) as a 1-based position in s, 0 when absent
strrchr(s, from, c) == LastOf({i \in from..Len(s) : s[i] = c}, 0)

\* One call of strtok on the string s whose saved pointer is the 1-based
\* position pos: skips delimiters, returns the token and the new saved
\* pointer (one past the delimiter that ended the token).
strtok(s, pos, delims) ==
    Let(FirstOf({i \in pos..Len(s) : s[i] \notin delims}, 0), LAMBDA b :
        IF b = 0
        THEN [tok |-> NULL, next |-> Len(s) + 1]
        ELSE Let(FirstOf({j \in b..Len(s) : s[j] \in delims}, Len(s) + 1),
                 LAMBDA e :
                    [tok |-> Ptr(SubSeq(s, b, e - 1)),
                     next |-> IF e > Len(s) THEN Len(s) + 1 ELSE e + 1]))

(***************************************************************************)
(* Constants of sql_indexer.c                                              *)
(***************************************************************************)
CREATE_TABLE_KEYWORD == <<"C", "R", "E", "A", "T", "E", " ", "T", "A", "B", "L", "E">>
CREATE_TABLE_LEN == 12
CHUNK_SIZE == 4096
BUFFER_EXTRA_MARGIN == 256
DEF_SIZE == 2048
TYPE_BUFFER_SIZE == 256
STATE_CODE == "STATE_CODE"

WS == {" ", "\t", "\n", "\r"}
WS_COMMA == {" ", "\t", "\n", "\r", ","}
PK_DELIMS == {",", BT, " "}

(***************************************************************************)
(* Index store                                                             *)
(***************************************************************************)
TABLE == <<"T", "A", "B", "L", "E">>

EmptyIndex == <<>>

\* add_table_entry without the look-up of the name
add_table_entry_always_appends(index, name, line_number) ==
    Append(index,
        [type |-> TABLE, name |-> name, line_number |-> line_number,
         table_info |-> Ptr([name |-> name, columns |-> <<>>,
                             line_number |-> line_number,
                             end_offset |-> -1])])

\* add_table_entry: a table of that name already in the index is kept as it
\* is; otherwise a TABLE entry with an empty TableInfo is appended.
add_table_entry(index, name, line_number) ==
    IF \E i \in 1..Len(index) : index[i].type = TABLE /\ index[i].name = name
    THEN index
    ELSE Append(index,
            [type |-> TABLE, name |-> name, line_number |-> line_number,
             table_info |-> Ptr([name |-> name, columns |-> <<>>,
                                 line_number |-> line_number,
                                 end_offset |-> -1])])

\* add_index_entry giving every entry a table detail record
add_index_entry_with_table_info(index, type, name, line_number) ==
    Append(index, [type |-> type, name |-> name,
                   line_number |-> line_number,
                   table_info |-> Ptr([name |-> name, columns |-> <<>>,
                                       line_number |-> line_number,
                                       end_offset |-> -1])])

\* add_index_entry: append an entry without table details
add_index_entry(index, type, name, line_number) ==
    Append(index, [type |-> type, name |-> name,
                   line_number |-> line_number, table_info |-> NULL])

\* add_column_to_table on a TableInfo value
add_column_to_table(table_info, name, type, is_primary_key, is_not_null, is_auto_increment, default_value) ==
    [table_info EXCEPT !.columns =
        Append(@, [name |-> name, type |-> type,
                   is_primary_key |-> is_primary_key,
                   is_not_null |-> is_not_null,
                   is_auto_increment |-> is_auto_increment,
                   default_value |-> default_value])]

(***************************************************************************)
(* Token helpers of the scanner                                            *)
(***************************************************************************)
\* find_next_token: offset of the first non-space byte in [ptr, end), or -1
find_next_token(buf, ptr) ==
    FirstOf({i \in ptr..(Len(buf) - 1) : ~IsSpace(buf[i + 1])}, -1)

\* get_token_length reads until NUL, white space, ',' or '(' and does not
\* know where the valid data ends.  When the token runs to the end of the
\* data the bytes it reads next are not file data (uninitialised or stale
\* buffer memory): past_end_stops tells whether the first of them stops the
\* token; otherwise the length reaches past the data.
get_token_length(buf, token_start, past_end_stops) ==
    Let(FirstOf({i \in token_start..(Len(buf) - 1) :
                    IsSpace(buf[i + 1]) \/ buf[i + 1] \in {",", "("}}, -1),
        LAMBDA stop :
            IF stop # -1 THEN stop - token_start
            ELSE IF past_end_stops THEN Len(buf) - token_start
            ELSE Len(buf) - token_start + 1)

\* find_table_body_start: offset after the first '(' in [ptr, end), or -1
find_table_body_start(buf, ptr) ==
    Let(FirstOf({i \in ptr..(Len(buf) - 1) : buf[i + 1] = "("}, -1),
        LAMBDA open : IF open = -1 THEN -1 ELSE open + 1)

\* number of bytes c in buf[from, to), offsets 0-based
CountChar(buf, from, to, c) ==
    Cardinality({i \in from..(to - 1) : buf[i + 1] = c})

\* parenthesis depth after the bytes buf[from, to) when it is depth at from
DepthAfter(buf, from, to, depth) ==
    depth + CountChar(buf, from, to, "(") - CountChar(buf, from, to, ")")

\* find_table_body_end: offset after the first ')' that brings the depth, 1
\* at ptr, to 0; -1 when the buffer ends first
find_table_body_end(buf, ptr) ==
    Let(FirstOf({i \in ptr..(Len(buf) - 1) :
                    buf[i + 1] = ")" /\ DepthAfter(buf, ptr, i + 1, 1) = 0}, -1),
        LAMBDA close : IF close = -1 THEN -1 ELSE close + 1)

(***************************************************************************)
(* parse_table_columns                                                     *)
(***************************************************************************)
\* number of '(' minus number of ')' in a token
paren_delta(tok) == DepthAfter(tok, 0, Len(tok), 0)

\* the scanner loop of parse_table_columns: offset of the next ',' at
\* parenthesis depth 0 in [scanner, end_ptr), or -1
definition_comma(buf, scanner, end_ptr, paren_depth) ==
    FirstOf({i \in scanner..(end_ptr - 1) :
                /\ buf[i + 1] = ","
                /\ DepthAfter(buf, scanner, i, paren_depth) = 0}, -1)

\* line_end of the last definition: starts at the byte end_ptr - 1, steps
\* back over white space, then points after the byte it stopped on
last_definition_end(buf, line_start, end_ptr) ==
    LastOf({i \in (line_start + 1)..(end_ptr - 1) : ~IsSpace(buf[i + 1])},
           line_start) + 1

\* line_end of the definition that starts at line_start
definition_end(buf, line_start, end_ptr) ==
    Let(definition_comma(buf, line_start, end_ptr, 0), LAMBDA comma :
        IF comma # -1 THEN comma
        ELSE last_definition_end(buf, line_start, end_ptr))

\* strncat(dst, src, size - strlen(dst) - 1) on a buffer of size bytes
strncat(dst, src, size) == Take(dst \o src, size - 1)

\* the strtok loop over the column names of PRIMARY KEY (...) / UNIQUE (...)
RECURSIVE mark_key_columns(_, _, _, _)
mark_key_columns(table_info, s, pos, key_type) ==
    Let(strtok(s, pos, PK_DELIMS), LAMBDA t :
        IF t.tok = NULL THEN table_info
        ELSE Let(FirstOf({i \in 1..Len(table_info.columns) :
                             table_info.columns[i].name = Deref(t.tok)}, 0),
                 LAMBDA hit :
                    Let(IF hit # 0 /\ strcasecmp_eq(key_type, <<"P", "R", "I", "M", "A", "R", "Y">>)
                        THEN [table_info EXCEPT
                                 !.columns[hit].is_primary_key = TRUE]
                        ELSE table_info,
                        LAMBDA marked :
                            mark_key_columns(marked, s, t.next, key_type))))

\* a table-level PRIMARY / UNIQUE fragment: the names between the first '('
\* and the last ')' of the fragment
table_constraint(table_info, def, key_type) ==
    Let(strchr(def, 1, "("), LAMBDA cols_part :
        IF cols_part = 0 THEN table_info
        ELSE Let(strrchr(def, cols_part, ")"), LAMBDA cols_end :
                Let(IF cols_end = 0 THEN def
                    ELSE SubSeq(def, 1, cols_end - 1),
                    LAMBDA cut :
                        mark_key_columns(table_info, cut, cols_part + 1,
                                         key_type))))

\* the type of a column: further tokens are appended, separated by one
\* space, while a parenthesis opened in the type is not yet closed
RECURSIVE column_type(_, _, _, _)
column_type(def, pos, type_buffer, paren_depth) ==
    IF paren_depth <= 0 THEN [type |-> type_buffer, next |-> pos]
    ELSE Let(strtok(def, pos, WS_COMMA), LAMBDA t :
            IF t.tok = NULL THEN [type |-> type_buffer, next |-> t.next]
            ELSE Let(strncat(strncat(type_buffer, <<" ">>, TYPE_BUFFER_SIZE),
                             Deref(t.tok), TYPE_BUFFER_SIZE),
                     LAMBDA longer :
                        Let(paren_depth + paren_delta(Deref(t.tok)),
                            LAMBDA depth :
                                column_type(def, t.next, longer, depth))))

\* the attribute loop: NOT NULL, AUTO_INCREMENT, PRIMARY KEY, DEFAULT v
RECURSIVE column_attributes(_, _, _)
column_attributes(def, pos, acc) ==
    Let(strtok(def, pos, WS_COMMA), LAMBDA t :
        IF t.tok = NULL THEN acc
        ELSE Let(Deref(t.tok), LAMBDA token :
             Let(strtok(def, t.next, WS_COMMA), LAMBDA nxt :
               IF strcasecmp_eq(token, <<"N", "O", "T">>)
               THEN Let(IF nxt.tok # NULL /\ strcasecmp_eq(Deref(nxt.tok), <<"N", "U", "L", "L">>)
                        THEN [acc EXCEPT !.is_nn = TRUE] ELSE acc,
                        LAMBDA a : column_attributes(def, nxt.next, a))
               ELSE IF strcasecmp_eq(token, <<"A", "U", "T", "O", "_", "I", "N", "C", "R", "E", "M", "E", "N", "T">>)
               THEN Let([acc EXCEPT !.is_ai = TRUE],
                        LAMBDA a : column_attributes(def, t.next, a))
               ELSE IF strcasecmp_eq(token, <<"P", "R", "I", "M", "A", "R", "Y">>)
               THEN Let(IF nxt.tok # NULL /\ strcasecmp_eq(Deref(nxt.tok), <<"K", "E", "Y">>)
                        THEN [acc EXCEPT !.is_pk = TRUE] ELSE acc,
                        LAMBDA a : column_attributes(def, nxt.next, a))
               ELSE IF strcasecmp_eq(token, <<"D", "E", "F", "A", "U", "L", "T">>)
               THEN Let([acc EXCEPT !.default_value = nxt.tok],
                        LAMBDA a : column_attributes(def, nxt.next, a))
               ELSE column_attributes(def, t.next, acc))))

\* the name of a column: the first token, without its leading backtick and
\* cut at the next backtick
column_name(token) ==
    IF token[1] = BT
    THEN Let(Tail(token), LAMBDA after_tick :
            Let(strchr(after_tick, 1, BT), LAMBDA end_tick :
                IF end_tick = 0 THEN after_tick
                ELSE SubSeq(after_tick, 1, end_tick - 1)))
    ELSE token

\* a column definition: name, type and attributes of one fragment
column_definition(table_info, def) ==
    Let(strtok(def, 1, WS), LAMBDA t1 :
        IF t1.tok = NULL THEN table_info
        ELSE Let(strtok(def, t1.next, WS), LAMBDA t2 :
            IF t2.tok = NULL THEN table_info
            ELSE Let(Take(Deref(t2.tok), TYPE_BUFFER_SIZE - 1), LAMBDA first :
                 Let(column_type(def, t2.next, first, paren_delta(first)),
                     LAMBDA ty :
                 Let(column_attributes(def, ty.next,
                         [is_pk |-> FALSE, is_nn |-> FALSE,
                          is_ai |-> FALSE, default_value |-> NULL]),
                     LAMBDA attrs :
                        add_column_to_table(table_info,
                            column_name(Deref(t1.tok)), ty.type,
                            attrs.is_pk, attrs.is_nn, attrs.is_ai,
                            attrs.default_value))))))

\* one fragment of the table body
table_fragment(table_info, def) ==
    Let(strtok(def, 1, WS).tok, LAMBDA first_word :
        IF first_word = NULL THEN table_info
        ELSE IF \/ strcasecmp_eq(Deref(first_word), <<"P", "R", "I", "M", "A", "R", "Y">>)
                \/ strcasecmp_eq(Deref(first_word), <<"U", "N", "I", "Q", "U", "E">>)
        THEN table_constraint(table_info, def, Deref(first_word))
        ELSE IF /\ ~strcasecmp_eq(Deref(first_word), <<"C", "O", "N", "S", "T", "R", "A", "I", "N", "T">>)
                /\ ~strcasecmp_eq(Deref(first_word), <<"K", "E", "Y">>)
                /\ ~strcasecmp_eq(Deref(first_word), <<"F", "O", "R", "E", "I", "G", "N">>)
        THEN column_definition(table_info, def)
        ELSE table_info)

\* the while loop of parse_table_columns from offset p.  acc holds the
\* table, the local success and the number of calls of add_column_to_table
\* that succeed before one returns false (-1: none does); a call that
\* fails leaves the table as it is.
RECURSIVE parse_table_columns_from(_, _, _, _)
parse_table_columns_from(buf, p, end_ptr, acc) ==
    Let(FirstOf({i \in p..(end_ptr - 1) :
                    ~(IsSpace(buf[i + 1]) \/ buf[i + 1] = ",")}, -1),
        LAMBDA line_start :
            IF p >= end_ptr \/ line_start = -1 THEN acc
            ELSE Let(definition_end(buf, line_start, end_ptr), LAMBDA line_end :
                 Let(Take(SubSeq(buf, line_start + 1, line_end), DEF_SIZE - 1),
                     LAMBDA def :
                 Let(table_fragment(acc.table_info, def), LAMBDA info :
                 Let(Len(info.columns) > Len(acc.table_info.columns),
                     LAMBDA column_added :
                     parse_table_columns_from(buf, line_end + 1, end_ptr,
                        IF column_added /\ acc.allocs_left = 0
                        THEN [acc EXCEPT !.success = FALSE,
                                         !.allocs_left = -1]
                        ELSE [acc EXCEPT !.table_info = info,
                                         !.allocs_left =
                                            IF column_added /\ @ > 0
                                            THEN @ - 1 ELSE @]))))))

\* parse_table_columns(ctx, table_info, start_ptr, end_ptr): the TableInfo
\* after the fragments of buf[start_ptr, end_ptr) were handled, and the
\* value returned
parse_table_columns(buf, table_info, start_ptr, end_ptr, col_allocs) ==
    parse_table_columns_from(buf, start_ptr, end_ptr,
        [table_info |-> table_info, success |-> TRUE,
         allocs_left |-> col_allocs])

(***************************************************************************)
(* process_chunk                                                           *)
(***************************************************************************)
\* the table name of a token: a token that starts and ends with a backtick
\* loses both
strip_backticks(raw) ==
    IF raw[1] = BT /\ raw[Len(raw)] = BT
    THEN SubSeq(raw, 2, Len(raw) - 1)
    ELSE raw

\* the statement once its TABLE entry is in index1: the body is looked for
\* from name_end, the offset after the table name
table_body(buf, st, index1, table_name, name_end, global_offset) ==
    Let(find_table_body_start(buf, name_end), LAMBDA table_body_start :
        IF table_body_start # -1
        THEN Let(LastOf({i \in 1..Len(index1) :
                            /\ index1[i].type = TABLE
                            /\ index1[i].name = table_name}, 0),
                 LAMBDA table_idx :
             Let(find_table_body_end(buf, table_body_start),
                 LAMBDA table_body_end :
                IF table_body_end # -1
                THEN Let(parse_table_columns(buf,
                             [Deref(index1[table_idx].table_info) EXCEPT
                                 !.end_offset = global_offset + table_body_end],
                             table_body_start, table_body_end,
                             st.col_allocs_left),
                         LAMBDA parsed :
                            \* a false return only prints a warning
                            [st EXCEPT
                               !.index = [index1 EXCEPT
                                            ![table_idx].table_info =
                                                Ptr(parsed.table_info)],
                               !.col_allocs_left = parsed.allocs_left,
                               !.column_failed = @ \/ ~parsed.success,
                               !.ptr = table_body_end,
                               !.processed_bytes = table_body_end])
                ELSE [st EXCEPT !.index = index1,
                                !.processed_bytes = st.ptr,
                                !.returned = TRUE]))
        ELSE [st EXCEPT
                !.index = [index1 EXCEPT ![Len(index1)].table_info =
                             Ptr([Deref(@) EXCEPT !.end_offset =
                                     global_offset + name_end])],
                !.ptr = name_end,
                !.processed_bytes = name_end])

\* A validated CREATE TABLE keyword at st.ptr: name, index entry, body.
\* st holds the locals ptr and processed_bytes and the fields of ctx that
\* process_chunk changes; returned is set when the function returns early.
create_table_statement(buf, st, global_offset, past_end_stops) ==
    Let(find_next_token(buf, st.ptr + CREATE_TABLE_LEN), LAMBDA token_start :
    Let([st EXCEPT !.ptr = st.ptr + CREATE_TABLE_LEN,
                   !.processed_bytes = st.ptr + CREATE_TABLE_LEN],
        LAMBDA skip_keyword :
        IF token_start = -1 THEN skip_keyword
        ELSE Let(get_token_length(buf, token_start, past_end_stops),
                 LAMBDA token_len :
            IF ~(token_len > 0 /\ token_start + token_len <= Len(buf))
            THEN skip_keyword
            ELSE IF st.allocs_left = 0
            THEN \* malloc of table_name or an allocation of add_table_entry
                 \* returns NULL
                 [st EXCEPT !.error_occurred = TRUE, !.returned = TRUE]
            ELSE Let(SubSeq(buf, token_start + 1, token_start + token_len),
                     LAMBDA raw :
                IF raw[1] = BT /\ token_len < 2
                THEN \* memmove of token_len - 2 = SIZE_MAX bytes
                     [st EXCEPT !.crashed = TRUE, !.returned = TRUE]
                ELSE Let(strip_backticks(raw), LAMBDA table_name :
                     Let(add_table_entry(st.index, table_name, st.current_line),
                         LAMBDA index1 :
                            table_body(buf,
                                [st EXCEPT !.allocs_left =
                                    IF @ > 0 THEN @ - 1 ELSE @],
                                index1, table_name,
                                token_start + token_len,
                                global_offset)))))))

\* the keyword test of process_chunk at offset ptr
keyword_at(buf, ptr, state) ==
    /\ state = STATE_CODE
    /\ Len(buf) - ptr >= CREATE_TABLE_LEN
    /\ strncasecmp_eq(buf, ptr, CREATE_TABLE_KEYWORD)
    /\ \/ ptr + CREATE_TABLE_LEN = Len(buf)
       \/ IsSpace(buf[ptr + CREATE_TABLE_LEN + 1])

\* line tracking over the bytes buf[from, to]: one line per newline byte
track_lines(buf, st, global_offset, from, to) ==
    Let({i \in from..to : i < Len(buf) /\ buf[i + 1] = "\n"}, LAMBDA newlines :
        IF newlines = {} THEN st
        ELSE [st EXCEPT !.current_line = @ + Cardinality(newlines),
                        !.last_newline_offset = global_offset + Max(newlines)])

\* the while loop of process_chunk: the bytes up to the next keyword match
\* are stepped over one by one (ptr++), then the statement is handled
RECURSIVE process_chunk_loop(_, _, _, _, _)
process_chunk_loop(buf, st, global_offset, state, past_end_stops) ==
    IF st.ptr >= Len(buf) \/ st.returned THEN st
    ELSE
     Let(FirstOf({q \in st.ptr..(Len(buf) - 1) : keyword_at(buf, q, state)}, -1),
         LAMBDA match :
            IF match = -1
            THEN [track_lines(buf, st, global_offset, st.ptr, Len(buf) - 1)
                     EXCEPT !.ptr = Len(buf), !.processed_bytes = Len(buf)]
            ELSE Let([track_lines(buf, st, global_offset, st.ptr, match)
                         EXCEPT !.ptr = match, !.processed_bytes = match],
                     LAMBDA at_keyword :
                 Let(create_table_statement(buf, at_keyword, global_offset,
                                            past_end_stops),
                     LAMBDA after :
                        process_chunk_loop(buf, after, global_offset, state,
                                           past_end_stops))))

\* process_chunk(ctx): the locals and changed fields when it returns.
\* allocs is the number of statements whose allocations succeed before one
\* fails (-1: none fails), col_allocs the same for the calls of
\* add_column_to_table; column_failed tells that parse_table_columns has
\* returned false.
process_chunk(c, past_end_stops, allocs, col_allocs) ==
    process_chunk_loop(c.buffer,
        [ptr |-> 0, processed_bytes |-> 0, returned |-> FALSE,
         crashed |-> FALSE, current_line |-> c.current_line,
         last_newline_offset |-> c.last_newline_offset,
         index |-> c.index, error_occurred |-> c.error_occurred,
         allocs_left |-> allocs, col_allocs_left |-> col_allocs,
         column_failed |-> FALSE],
        c.global_offset, c.state, past_end_stops)

\* ctx after process_chunk returned r
after_chunk(c, r) ==
    [c EXCEPT !.current_line = r.current_line,
              !.last_newline_offset = r.last_newline_offset,
              !.index = r.index,
              !.error_occurred = r.error_occurred]

(***************************************************************************)
(* process_sql_file                                                        *)
(***************************************************************************)
\* initialize_context on a file that opens
initialize_context(chunk) ==
    [file_pos |-> 0, buffer |-> <<>>,
     buffer_size |-> chunk + BUFFER_EXTRA_MARGIN,
     buffer_data_len |-> 0, global_offset |-> 0, current_line |-> 1,
     last_newline_offset |-> -1, state |-> STATE_CODE,
     index |-> EmptyIndex, error_occurred |-> FALSE]

\* the doubling loop of ensure_buffer_capacity (sizes stay far below the
\* width of size_t)
RECURSIVE grown_size(_, _, _)
grown_size(new_size, data_len, required_size) ==
    IF new_size - data_len < required_size
    THEN grown_size(new_size * 2, data_len, required_size)
    ELSE new_size

\* ensure_buffer_capacity testing the size of the buffer, not its free space
ensure_buffer_capacity_of_size(c, required_size, realloc_ok) ==
    IF c.buffer_size < required_size
    THEN IF realloc_ok
         THEN [c EXCEPT !.buffer_size =
                 grown_size(c.buffer_size * 2, c.buffer_data_len,
                            required_size)]
         ELSE [c EXCEPT !.error_occurred = TRUE]
    ELSE c

\* realloc_ok: realloc returns a buffer; when it returns NULL the function
\* sets error_occurred and returns false
ensure_buffer_capacity(c, required_size, realloc_ok) ==
    IF c.buffer_size - c.buffer_data_len < required_size
    THEN IF realloc_ok
         THEN [c EXCEPT !.buffer_size =
                 grown_size(c.buffer_size * 2, c.buffer_data_len,
                            required_size)]
         ELSE [c EXCEPT !.error_occurred = TRUE]
    ELSE c

\* the code after the read loop: a last process_chunk over what is left
final_chunk(c, past_end_stops, allocs, col_allocs) ==
    IF c.buffer_data_len > 0 /\ ~c.error_occurred
    THEN [after_chunk(c, process_chunk(c, past_end_stops, allocs, col_allocs))
             EXCEPT !.buffer = <<>>, !.buffer_data_len = 0]
    ELSE c

\* ctx after fread appended n bytes of the file to the buffer
after_fread(c, file, n) ==
    [c EXCEPT !.buffer = @ \o SubSeq(file, c.file_pos + 1, c.file_pos + n),
              !.buffer_data_len = @ + n,
              !.file_pos = @ + n]

\* after_shift without the memmove: the bytes stay where they are
after_shift_without_move(c, processed_len) ==
    [c EXCEPT !.global_offset = @ + processed_len,
              !.buffer = SubSeq(@, 1, Len(@) - processed_len),
              !.buffer_data_len =
                  IF processed_len < @ THEN @ - processed_len ELSE 0]

\* after_shift assigning the processed length to global_offset, not adding it
after_shift_assigning_offset(c, processed_len) ==
    [c EXCEPT !.global_offset = processed_len,
              !.buffer = SubSeq(@, processed_len + 1, Len(@)),
              !.buffer_data_len =
                  IF processed_len < @ THEN @ - processed_len ELSE 0]

\* ctx after processed_len bytes were consumed: global_offset moves on and
\* the unprocessed bytes are shifted to the start of the buffer
after_shift(c, processed_len) ==
    [c EXCEPT !.global_offset = @ + processed_len,
              !.buffer = SubSeq(@, processed_len + 1, Len(@)),
              !.buffer_data_len =
                  IF processed_len < @ THEN @ - processed_len ELSE 0]

\* the outcomes of a call that can fail: it fails only in executions with
\* faults
Fails == IF faults = "fatal" THEN BOOLEAN ELSE {FALSE}

\* the number of statements of one process_chunk call whose allocations
\* succeed before one fails; -1 when none fails
AllocChoices == IF faults = "fatal" THEN {-1, 0, 1} ELSE {-1}

\* the number of calls of add_column_to_table in one call of process_chunk
\* that succeed before the allocation of one fails (-1: none fails)
ColumnAllocChoices == IF faults = "column" THEN {-1, 0, 1} ELSE {-1}

\* first half of a loop iteration: ensure_buffer_capacity, fread (a read
\* error makes it return 0 with ferror set), and the break on a read of 0
\* bytes with an empty buffer
Read ==
    /\ pc = "read"
    /\ \E realloc_fails \in Fails, read_error \in Fails :
       \E c1 \in {ensure_buffer_capacity(ctx, chunk_size, ~realloc_fails)} :
          IF c1.error_occurred
          THEN /\ ctx' = c1
               /\ bytes_read' = bytes_read
               /\ fault_hit' = TRUE
               /\ pc' = "scan_done"
          ELSE
           \E n \in {IF read_error THEN 0
                     ELSE Min({chunk_size, Len(sql_file) - c1.file_pos})} :
           \E c2 \in {[c1 EXCEPT !.error_occurred = read_error]} :
              /\ bytes_read' = n
              /\ fault_hit' = (fault_hit \/ read_error)
              /\ IF n = 0 /\ c2.buffer_data_len = 0
                 THEN /\ ctx' = c2
                      /\ pc' = "scan_done"
                 ELSE /\ ctx' = after_fread(c2, sql_file, n)
                      /\ pc' = "process"
    /\ UNCHANGED cli
    /\ UNCHANGED <<sql_file, chunk_size, faults, main_vars, sample_vars>>

\* second half: process_chunk, the return on error_occurred, the update of
\* global_offset, the shift of the unprocessed bytes and the break at end
\* of file
Process ==
    /\ pc = "process"
    /\ \E past_end_stops \in BOOLEAN, allocs \in AllocChoices,
          col_allocs \in ColumnAllocChoices :
       \E r \in {process_chunk(ctx, past_end_stops, allocs, col_allocs)} :
       \E c1 \in {after_chunk(ctx, r)} :
       \E c2 \in {after_shift(c1, r.processed_bytes)} :
          IF r.crashed
          THEN /\ ctx' = c1
               /\ fault_hit' = fault_hit
               /\ pc' = "crashed"
          ELSE IF c1.error_occurred
          THEN /\ ctx' = c1
               /\ fault_hit' = TRUE
               /\ pc' = "scan_done"
          ELSE IF bytes_read = 0 /\ c2.buffer_data_len = 0
          THEN \E c3 \in {final_chunk(c2, past_end_stops, allocs,
                                       col_allocs)} :
                  /\ ctx' = c3
                  /\ fault_hit' = (fault_hit \/ r.column_failed
                                    \/ c3.error_occurred)
                  /\ pc' = "scan_done"
          ELSE /\ ctx' = c2
               /\ fault_hit' = (fault_hit \/ r.column_failed)
               /\ pc' = "read"
    /\ UNCHANGED cli
    /\ UNCHANGED <<sql_file, chunk_size, faults, bytes_read, main_vars,
                   sample_vars>>

(***************************************************************************)
(* printf and sscanf as the index file codec uses them                     *)
(***************************************************************************)
Digits == <<"0", "1", "2", "3", "4", "5", "6", "7", "8", "9">>

\* printf("%d") / printf("%ld") of an integer
RECURSIVE FormatNat(_)
FormatNat(n) ==
    IF n < 10 THEN <<Digits[n + 1]>>
    ELSE FormatNat(n \div 10) \o <<Digits[(n % 10) + 1]>>

FormatInt(n) == IF n < 0 THEN <<"-">> \o FormatNat(-n) ELSE FormatNat(n)

DigitValue(c) == (CHOOSE i \in 1..10 : Digits[i] = c) - 1

\* the number a run of decimal digits stands for
RECURSIVE DigitsValue(_)
DigitsValue(ds) ==
    IF ds = <<>> THEN 0
    ELSE 10 * DigitsValue(SubSeq(ds, 1, Len(ds) - 1)) + DigitValue(ds[Len(ds)])

\* the directives of a scanf format
ScanSet(width, stops) == [kind |-> "set", width |-> width, stops |-> stops]
ScanInt == [kind |-> "int"]
ScanLit(c) == [kind |-> "lit", c |-> c]

\* %<width>[^stops] at position pos of s: a non-empty run of bytes that are
\* not in stops, at most width long
scan_set(s, pos, width, stops) ==
    Let(FirstOf({i \in pos..Len(s) : s[i] \in stops}, Len(s) + 1), LAMBDA e :
        Let(Min({e - pos, width}), LAMBDA n :
            [ok |-> n > 0, eof |-> pos > Len(s),
             val |-> SubSeq(s, pos, pos + n - 1), next |-> pos + n]))

\* %d / %ld at position pos of s: white space, an optional sign, digits
scan_int(s, pos) ==
    Let(FirstOf({i \in pos..Len(s) : ~IsSpace(s[i])}, Len(s) + 1), LAMBDA b :
        Let(IF b <= Len(s) /\ s[b] \in {"-", "+"} THEN b + 1 ELSE b, LAMBDA d :
            Let(FirstOf({i \in d..Len(s) : s[i] \notin Range(Digits)},
                        Len(s) + 1),
                LAMBDA e :
                    [ok |-> e > d, eof |-> b > Len(s),
                     val |-> IF e > d
                             THEN (IF s[b] = "-" THEN -1 ELSE 1)
                                    * DigitsValue(SubSeq(s, d, e - 1))
                             ELSE 0,
                     next |-> e])))

\* sscanf(s + pos - 1, format): the values assigned, in order.  count is
\* the return value: the number of values assigned, EOF (-1) when the input
\* ends before the first conversion.
RECURSIVE sscanf_from(_, _, _, _)
sscanf_from(s, pos, format, vals) ==
    IF format = <<>> THEN [count |-> Len(vals), vals |-> vals]
    ELSE Let(Head(format), LAMBDA d :
        IF d.kind = "lit"
        THEN IF pos <= Len(s) /\ s[pos] = d.c
             THEN sscanf_from(s, pos + 1, Tail(format), vals)
             ELSE [count |-> IF vals = <<>> /\ pos > Len(s) THEN -1
                             ELSE Len(vals),
                   vals |-> vals]
        ELSE Let(IF d.kind = "set" THEN scan_set(s, pos, d.width, d.stops)
                 ELSE scan_int(s, pos),
                 LAMBDA f :
                    IF f.ok
                    THEN sscanf_from(s, f.next, Tail(format),
                                     Append(vals, f.val))
                    ELSE [count |-> IF vals = <<>> /\ f.eof THEN -1
                                    ELSE Len(vals),
                          vals |-> vals]))

sscanf(s, format) == sscanf_from(s, 1, format, <<>>)

\* a literal stretch of a format
Literal(text) == [i \in 1..Len(text) |-> ScanLit(text[i])]

\* "COLUMN,%255[^,],%255[^,],%255[^,],%d,%d,%d,%255[^\n]"
COLUMN_FORMAT ==
    Literal(<<"C", "O", "L", "U", "M", "N", ",">>)
    \o <<ScanSet(255, {","}), ScanLit(","), ScanSet(255, {","}), ScanLit(","),
         ScanSet(255, {","}), ScanLit(","), ScanInt, ScanLit(","), ScanInt,
         ScanLit(","), ScanInt, ScanLit(","), ScanSet(255, {"\n"})>>

\* "%255[^,],%511[^,],%d,%ld"
ENTRY_FORMAT ==
    <<ScanSet(255, {","}), ScanLit(","), ScanSet(511, {","}), ScanLit(","),
      ScanInt, ScanLit(","), ScanInt>>

(***************************************************************************)
(* write_index_to_file                                                     *)
(***************************************************************************)
\* the COLUMN line of a column of the table named table_name
column_line(table_name, col) ==
    <<"C", "O", "L", "U", "M", "N", ",">> \o table_name \o <<",">> \o col.name \o <<",">> \o col.type
    \o <<",">> \o (IF col.is_primary_key THEN <<"1">> ELSE <<"0">>)
    \o <<",">> \o (IF col.is_not_null THEN <<"1">> ELSE <<"0">>)
    \o <<",">> \o (IF col.is_auto_increment THEN <<"1">> ELSE <<"0">>)
    \o <<",">> \o (IF col.default_value # NULL THEN Deref(col.default_value)
                ELSE <<>>)
    \o <<"\n">>

RECURSIVE column_lines(_, _, _)
column_lines(table, j, out) ==
    IF j > Len(table.columns) THEN out
    ELSE Let(out \o column_line(table.name, table.columns[j]), LAMBDA o :
            column_lines(table, j + 1, o))

\* the lines of one entry
entry_lines(entry) ==
    IF entry.type = TABLE /\ entry.table_info # NULL
    THEN column_lines(Deref(entry.table_info), 1,
            entry.type \o <<",">> \o entry.name \o <<",">>
            \o FormatInt(entry.line_number) \o <<",">>
            \o FormatInt(Deref(entry.table_info).end_offset) \o <<"\n">>)
    ELSE entry.type \o <<",">> \o entry.name \o <<",">>
         \o FormatInt(entry.line_number) \o <<"\n">>

RECURSIVE index_lines(_, _, _)
index_lines(index, i, out) ==
    IF i > Len(index) THEN out
    ELSE Let(out \o entry_lines(index[i]), LAMBDA o :
            index_lines(index, i + 1, o))

\* write_index_to_file(index, index_filename, sql_file_sha256): the content
\* of the file it leaves (the file opens and every write succeeds)
write_index_to_file(index, sql_file_sha256) ==
    index_lines(index, 1,
        IF sql_file_sha256 # NULL
        THEN <<"S", "H", "A", "2", "5", "6", ":">> \o Deref(sql_file_sha256) \o <<"\n">>
        ELSE <<>>)

(***************************************************************************)
(* read_index_from_file                                                    *)
(***************************************************************************)
LINE_BUFFER_SIZE == 1024
SHA256_LEN == 64

\* read_line_from_index on the stream whose file position is fp: the line
\* without its newline, cut to the buffer, and the new file position; NULL
\* at end of file
read_line_from_index(stream, fp, buffer_size) ==
    IF fp >= Len(stream) THEN [line |-> NULL, fp |-> fp]
    ELSE Let(FirstOf({i \in fp..(Len(stream) - 1) : stream[i + 1] = "\n"},
                     Len(stream)),
             LAMBDA nl :
                [line |-> Ptr(Take(SubSeq(stream, fp + 1, nl),
                                   buffer_size - 1)),
                 fp |-> Min({nl + 1, Len(stream)})])

\* load_header with the digest copied from one byte too early in the line
load_header_off_by_one(stream) ==
    Let(read_line_from_index(stream, 0, LINE_BUFFER_SIZE), LAMBDA first :
        IF first.line # NULL /\ strncmp_eq(Deref(first.line), 0, <<"S", "H", "A", "2", "5", "6", ":">>)
        THEN [fp |-> first.fp, index |-> EmptyIndex,
              sql_file_sha256 |->
                  Take(SubSeq(Deref(first.line), 7, Len(Deref(first.line))),
                       SHA256_LEN),
              name_buffer |-> NULL, returned |-> "no"]
        ELSE [fp |-> 0, index |-> EmptyIndex, sql_file_sha256 |-> <<>>,
              name_buffer |-> NULL, returned |-> "no"])

\* the start of read_index_from_file: the index is emptied and the first
\* line is taken as the SHA256 line, or the stream is rewound
load_header(stream) ==
    Let(read_line_from_index(stream, 0, LINE_BUFFER_SIZE), LAMBDA first :
        IF first.line # NULL /\ strncmp_eq(Deref(first.line), 0, <<"S", "H", "A", "2", "5", "6", ":">>)
        THEN [fp |-> first.fp, index |-> EmptyIndex,
              sql_file_sha256 |->
                  Take(SubSeq(Deref(first.line), 8, Len(Deref(first.line))),
                       SHA256_LEN),
              name_buffer |-> NULL, returned |-> "no"]
        ELSE [fp |-> 0, index |-> EmptyIndex, sql_file_sha256 |-> <<>>,
              name_buffer |-> NULL, returned |-> "no"])

\* a COLUMN line.  garbage holds what the locals that sscanf did not assign
\* (is_pk_int, is_nn_int, is_ai_int) and a name_buffer that no line has
\* filled yet happen to contain.
load_column_line(ld, line, garbage) ==
    Let(sscanf(line, COLUMN_FORMAT), LAMBDA r :
        IF /\ r.count >= 3
           /\ IF ld.name_buffer = NULL THEN garbage.name_eq
              ELSE r.vals[1] = Deref(ld.name_buffer)
        THEN IF Len(ld.index) = 0
             THEN \* entries[-1] of an array that was never allocated
                  [ld EXCEPT !.returned = "crashed"]
             ELSE IF ld.index[Len(ld.index)].table_info = NULL
             THEN [ld EXCEPT !.index = EmptyIndex, !.returned = "false"]
             ELSE [ld EXCEPT !.index[Len(ld.index)].table_info =
                     Ptr(add_column_to_table(Deref(@), r.vals[2], r.vals[3],
                            IF r.count >= 4 THEN r.vals[4] # 0
                            ELSE garbage.is_pk,
                            IF r.count >= 5 THEN r.vals[5] # 0
                            ELSE garbage.is_nn,
                            IF r.count >= 6 THEN r.vals[6] # 0
                            ELSE garbage.is_ai,
                            IF r.count >= 7 THEN Ptr(r.vals[7]) ELSE NULL))]
        ELSE ld)

\* a main entry line: TYPE,NAME,LINE[,END_OFFSET]
load_entry_line(ld, line) ==
    Let(sscanf(line, ENTRY_FORMAT), LAMBDA r :
    Let(IF r.count >= 2 THEN [ld EXCEPT !.name_buffer = Ptr(r.vals[2])]
        ELSE ld,
        LAMBDA named :
        IF r.count < 3 THEN named
        ELSE IF r.vals[1] = TABLE
        THEN Let(add_table_entry(ld.index, r.vals[2], r.vals[3]), LAMBDA idx :
                IF r.count = 4 /\ Len(idx) > 0
                THEN IF idx[Len(idx)].table_info = NULL
                     THEN \* end_offset written through a NULL table_info
                          [named EXCEPT !.index = idx,
                                        !.returned = "crashed"]
                     ELSE [named EXCEPT !.index =
                             [idx EXCEPT ![Len(idx)].table_info =
                                 Ptr([Deref(@) EXCEPT
                                        !.end_offset = r.vals[4]])]]
                ELSE [named EXCEPT !.index = idx])
        ELSE [named EXCEPT !.index =
                 add_index_entry(ld.index, r.vals[1], r.vals[2], r.vals[3])]))

\* one iteration of the while loop of read_index_from_file, or its end
load_line(stream, ld, garbage) ==
    Let(read_line_from_index(stream, ld.fp, LINE_BUFFER_SIZE), LAMBDA rl :
        IF rl.line = NULL THEN [ld EXCEPT !.returned = "true"]
        ELSE Let([ld EXCEPT !.fp = rl.fp], LAMBDA at :
            IF strncmp_eq(Deref(rl.line), 0, <<"C", "O", "L", "U", "M", "N", ",">>)
            THEN load_column_line(at, Deref(rl.line), garbage)
            ELSE load_entry_line(at, Deref(rl.line))))

\* the locals of the next iteration that are read without having been
\* assigned, each with the values it may hold
uninitialised(stream, ld) ==
    Let(read_line_from_index(stream, ld.fp, LINE_BUFFER_SIZE).line, LAMBDA line :
    Let(IF line # NULL /\ strncmp_eq(Deref(line), 0, <<"C", "O", "L", "U", "M", "N", ",">>)
        THEN sscanf(Deref(line), COLUMN_FORMAT).count ELSE 7,
        LAMBDA vals_read :
            [name_eq : IF /\ line # NULL
                          /\ strncmp_eq(Deref(line), 0, <<"C", "O", "L", "U", "M", "N", ",">>)
                          /\ vals_read >= 3
                          /\ ld.name_buffer = NULL
                       THEN BOOLEAN ELSE {FALSE},
             is_pk : IF vals_read = 3 THEN BOOLEAN ELSE {FALSE},
             is_nn : IF vals_read \in 3..4 THEN BOOLEAN ELSE {FALSE},
             is_ai : IF vals_read \in 3..5 THEN BOOLEAN ELSE {FALSE}]))

(***************************************************************************)
(* get_first_row_sample                                                    *)
(***************************************************************************)
SAMPLE_MAX == 300
INSERT_INTO_LEN == 11
VALUES_LEN == 6

Quotes == {"'", "\"", BT}

\* *p == c for an offset p into a buffer whose terminating NUL is at offset
\* Len(buf)
byte_is(buf, p, c) == p < Len(buf) /\ buf[p + 1] = c

\* while (isspace(*p)) p++
skip_space(buf, p) ==
    FirstOf({i \in p..(Len(buf) - 1) : ~IsSpace(buf[i + 1])}, Len(buf))

\* the inner while loop of the search: white space, '-' and '/' are stepped
\* over, a "--" comment up to its newline and a block comment up to its end
RECURSIVE skip_blank(_, _)
skip_blank(buf, search_start) ==
    Let(FirstOf({i \in search_start..(Len(buf) - 1) :
                    \/ ~(IsSpace(buf[i + 1]) \/ buf[i + 1] \in {"-", "/"})
                    \/ buf[i + 1] = "-" /\ byte_is(buf, i + 1, "-")
                    \/ buf[i + 1] = "/" /\ byte_is(buf, i + 1, "*")},
                Len(buf)),
        LAMBDA q :
            IF q >= Len(buf) THEN Len(buf)
            ELSE IF buf[q + 1] = "-" /\ byte_is(buf, q + 1, "-")
            THEN Let(strchr(buf, q + 1, "\n"), LAMBDA eol :
                    IF eol # 0 THEN skip_blank(buf, eol) ELSE Len(buf))
            ELSE IF buf[q + 1] = "/" /\ byte_is(buf, q + 1, "*")
            THEN Let(FirstOf({i \in (q + 2)..(Len(buf) - 2) :
                                 buf[i + 1] = "*" /\ buf[i + 2] = "/"}, -1),
                     LAMBDA end_comment :
                        IF end_comment # -1
                        THEN skip_blank(buf, end_comment + 2)
                        ELSE Len(buf))
            ELSE q)

\* VALUES and the opening parenthesis after the table name: the offset of
\* the row data, or -1
match_values(buf, after_name) ==
    Let(skip_space(buf, after_name), LAMBDA after_table :
        IF strncasecmp_eq(buf, after_table, <<"V", "A", "L", "U", "E", "S">>)
        THEN Let(skip_space(buf, after_table + VALUES_LEN),
                 LAMBDA after_values :
                    IF byte_is(buf, after_values, "(") THEN after_values + 1
                    ELSE -1)
        ELSE -1)

\* the table name after INSERT INTO, with or without backticks
match_insert(buf, after_keyword, table_name) ==
    Let(skip_space(buf, after_keyword), LAMBDA after_insert :
        IF /\ byte_is(buf, after_insert, BT)
           /\ strncmp_eq(buf, after_insert + 1, table_name)
           /\ byte_is(buf, after_insert + 1 + Len(table_name), BT)
        THEN match_values(buf, after_insert + 1 + Len(table_name) + 1)
        ELSE IF strncmp_eq(buf, after_insert, table_name)
        THEN match_values(buf, after_insert + Len(table_name))
        ELSE -1)

\* the search loop over one buffer: found_pattern, or -1.  A candidate is
\* looked at where the skipping stops; after a candidate that does not
\* match the search goes on after the next newline.
RECURSIVE search_buffer(_, _, _)
search_buffer(buf, search_start, table_name) ==
    IF search_start >= Len(buf) THEN -1
    ELSE Let(skip_blank(buf, search_start), LAMBDA s :
        IF s >= Len(buf) THEN -1
        ELSE Let(IF strncasecmp_eq(buf, s, <<"I", "N", "S", "E", "R", "T", " ", "I", "N", "T", "O">>)
                 THEN match_insert(buf, s + INSERT_INTO_LEN, table_name)
                 ELSE -1,
                 LAMBDA found_pattern :
                    IF found_pattern # -1 THEN found_pattern
                    ELSE Let(strchr(buf, s + 1, "\n"), LAMBDA next_line :
                            IF next_line # 0
                            THEN search_buffer(buf, next_line, table_name)
                            ELSE -1)))

\* the loop that looks for the closing parenthesis of the row: row_end, or
\* -1 when the buffer ends first.  p is outside a string and paren_depth is
\* the depth there.
RECURSIVE find_row_end(_, _, _, _)
find_row_end(buf, row_start, p, paren_depth) ==
    Let(FirstOf({i \in p..(Len(buf) - 1) :
                    /\ buf[i + 1] \in Quotes
                    /\ (i = row_start \/ buf[i] # "\\")}, Len(buf)),
        LAMBDA open :
    Let(FirstOf({i \in p..(open - 1) :
                    /\ buf[i + 1] = ")"
                    /\ DepthAfter(buf, p, i + 1, paren_depth) = 0}, -1),
        LAMBDA close :
            IF close # -1 THEN close
            ELSE IF open >= Len(buf) THEN -1
            ELSE Let(FirstOf({i \in (open + 1)..(Len(buf) - 1) :
                                 /\ buf[i + 1] = buf[open + 1]
                                 /\ buf[i] # "\\"}, -1),
                     LAMBDA string_end :
                        IF string_end = -1 THEN -1
                        ELSE find_row_end(buf, row_start, string_end + 1,
                                DepthAfter(buf, p, open, paren_depth)))))

\* the text between row_start and row_end, the row whose data starts at
\* found_pattern; NULL when row_end stays NULL
row_text(buf, found_pattern) ==
    Let(find_row_end(buf, found_pattern, found_pattern, 1), LAMBDA row_end :
        IF row_end = -1 THEN NULL
        ELSE Ptr(SubSeq(buf, found_pattern + 1, row_end)))

\* the sample without the limit of 300 characters
row_sample_unlimited(buf, found_pattern) ==
    Let(find_row_end(buf, found_pattern, found_pattern, 1), LAMBDA row_end :
        IF row_end = -1 THEN NULL
        ELSE IF strncmp_eq(buf, found_pattern, <<"_", "b", "i", "n", "a", "r", "y", " ">>)
        THEN Ptr(<<"B", "L", "O", "B">>)
        ELSE Ptr(SubSeq(buf, found_pattern + 1, row_end)))

\* the sample of the row whose data starts at found_pattern
row_sample(buf, found_pattern) ==
    Let(find_row_end(buf, found_pattern, found_pattern, 1), LAMBDA row_end :
        IF row_end = -1 THEN NULL
        ELSE IF strncmp_eq(buf, found_pattern, <<"_", "b", "i", "n", "a", "r", "y", " ">>)
        THEN Ptr(<<"B", "L", "O", "B">>)
        ELSE Ptr(Take(SubSeq(buf, found_pattern + 1, row_end), SAMPLE_MAX)))

\* get_first_row_sample up to its read loop: the argument check, fopen and
\* fseek
\* get_first_row_sample going on whatever its arguments and fopen and fseek
\* are
sample_open_unchecked(start_offset, given, opens, seeks) ==
    [fp |-> Max({0, start_offset}), returned |-> FALSE, result |-> NULL,
     row |-> NULL]

\* given: filename and table_name are not NULL; opens, seeks: fopen and
\* fseek succeed
sample_open(start_offset, given, opens, seeks) ==
    IF start_offset < 0 \/ ~given \/ ~opens \/ ~seeks
    THEN [fp |-> 0, returned |-> TRUE, result |-> NULL, row |-> NULL]
    ELSE [fp |-> start_offset, returned |-> FALSE, result |-> NULL,
          row |-> NULL]

\* one fread of window bytes and the search in them; the function returns
\* at end of file and when an INSERT for the table was found
\* (a read error is a read of 0 bytes: read_ok is FALSE)
sample_read(file, st, table_name, window, read_ok) ==
    Let(IF read_ok
        THEN SubSeq(file, st.fp + 1, Min({st.fp + window, Len(file)}))
        ELSE <<>>,
        LAMBDA buffer :
            IF Len(buffer) = 0 THEN [st EXCEPT !.returned = TRUE]
            ELSE Let(search_buffer(buffer, 0, table_name),
                     LAMBDA found_pattern :
                        IF found_pattern = -1
                        THEN [st EXCEPT !.fp = @ + Len(buffer)]
                        ELSE [st EXCEPT
                                !.fp = @ + Len(buffer),
                                !.returned = TRUE,
                                !.row = row_text(buffer, found_pattern),
                                !.result = row_sample(buffer, found_pattern)]))

RECURSIVE sample_loop(_, _, _, _)
sample_loop(file, st, table_name, window) ==
    IF st.returned THEN st
    ELSE Let(sample_read(file, st, table_name, window, TRUE), LAMBDA after :
            sample_loop(file, after, table_name, window))

\* get_first_row_sample(filename, start_offset, table_name) on a file that
\* opens, read in windows of window bytes
get_first_row_sample(file, start_offset, table_name, window) ==
    sample_loop(file, sample_open(start_offset, TRUE, TRUE, TRUE), table_name,
                window).result

(***************************************************************************)
(* run_cli of sql_cli.c                                                    *)
(***************************************************************************)
PAGE_SIZE == 20
INT_MAX == 2147483647
INT_MIN == -2147483647 - 1

\* no REPL is running
NoCli == [count |-> 0, page |-> 0, selected_table |-> 0, input |-> NULL]

\* init_cli, and the locals of run_cli before its loop, on an index of
\* count tables
init_cli(count) ==
    [count |-> count, page |-> 0, selected_table |-> 0, input |-> NULL]

\* the number a run of digits stands for, modulo 2^32, as two halves of 16
\* bits; wide tells that the number does not fit 32 bits
RECURSIVE strtol_digits(_)
strtol_digits(ds) ==
    IF ds = <<>> THEN [hi |-> 0, lo |-> 0, wide |-> FALSE]
    ELSE Let(strtol_digits(SubSeq(ds, 1, Len(ds) - 1)), LAMBDA a :
         Let(a.lo * 10 + DigitValue(ds[Len(ds)]), LAMBDA l :
         Let(a.hi * 10 + l \div 65536, LAMBDA h :
             [hi |-> h % 65536, lo |-> l % 65536,
              wide |-> a.wide \/ h >= 65536])))

\* the int whose 32 bits are the halves hi and lo
int_of(hi, lo) ==
    IF hi >= 32768 THEN (hi - 65536) * 65536 + lo ELSE hi * 65536 + lo

\* the halves of the negated number
negated(a) ==
    IF a.lo = 0 THEN [a EXCEPT !.hi = (65536 - a.hi) % 65536]
    ELSE [a EXCEPT !.hi = 65535 - a.hi, !.lo = 65536 - a.lo]

\* the sign and the digits atoi converts: white space is skipped, a sign
\* is taken, and the conversion stops at the first byte that is no digit
atoi_digits(text) ==
    Let(skip_space(text, 0), LAMBDA p :
    Let(byte_is(text, p, "-"), LAMBDA negative :
    Let(IF byte_is(text, p, "-") \/ byte_is(text, p, "+") THEN p + 1 ELSE p,
        LAMBDA from :
        [negative |-> negative,
         digits |-> SubSeq(text, from + 1,
                           FirstOf({i \in from..(Len(text) - 1) :
                                       text[i + 1] \notin Range(Digits)},
                                   Len(text)))])))

\* the number the digits stand for fits an int
fits_int(negative, a) ==
    /\ ~a.wide
    /\ a.hi < 32768 \/ (negative /\ a.hi = 32768 /\ a.lo = 0)

\* atoi(text): the results it can have.  For a number that does not fit an
\* int the behaviour is undefined: the C library converts with strtol and
\* truncates the long to its low 32 bits (a number that does not fit a long
\* is LONG_MAX or LONG_MIN before the truncation), another saturates.
atoi(text) ==
    Let(atoi_digits(text), LAMBDA n :
    Let(strtol_digits(n.digits), LAMBDA a :
        IF fits_int(n.negative, a)
        THEN {int_of(IF n.negative THEN negated(a).hi ELSE a.hi,
                     IF n.negative THEN negated(a).lo ELSE a.lo)}
        ELSE {IF Len(n.digits) > 18
              THEN IF n.negative THEN 0 ELSE -1
              ELSE int_of(IF n.negative THEN negated(a).hi ELSE a.hi,
                          IF n.negative THEN negated(a).lo ELSE a.lo),
              IF n.negative THEN INT_MIN ELSE INT_MAX}))

\* atoi(input + 7) - 1 (INT_MIN - 1 overflows: the build wraps)
select_index(input) ==
    {IF v = INT_MIN THEN INT_MAX ELSE v - 1 :
        v \in atoi(SubSeq(input, 8, Len(input)))}

\* one iteration of the loop of run_cli on the line input, which is not
\* quit: the states it can leave
cli_command(c, input) ==
    IF input = <<"l", "i", "s", "t">> THEN {[c EXCEPT !.input = Ptr(input)]}
    ELSE IF input = <<"m", "o", "r", "e">>
    THEN IF (c.page + 1) * PAGE_SIZE < c.count
         THEN {[c EXCEPT !.page = @ + 1, !.input = Ptr(input)]}
         ELSE {[c EXCEPT !.input = Ptr(input)]}
    ELSE IF input = <<"b", "a", "c", "k">>
    THEN IF c.page > 0
         THEN {[c EXCEPT !.page = @ - 1, !.input = Ptr(input)]}
         ELSE {[c EXCEPT !.input = Ptr(input)]}
    ELSE IF strncmp_eq(input, 0, <<"s", "e", "l", "e", "c", "t", " ">>)
    THEN {IF idx >= 0 /\ idx < c.count
          THEN [c EXCEPT !.selected_table = idx, !.input = Ptr(input)]
          ELSE [c EXCEPT !.input = Ptr(input)] :
             idx \in select_index(input)}
    ELSE {[c EXCEPT !.input = Ptr(input)]}

(***************************************************************************)
(* Input files of the scan                                                 *)
(***************************************************************************)
MaxColumns == 2

RECURSIVE Join(_, _)
Join(parts, sep) ==
    IF parts = <<>> THEN <<>>
    ELSE IF Len(parts) = 1 THEN parts[1]
    ELSE parts[1] \o sep \o Join(Tail(parts), sep)

Column(name, type, pk, nn, ai, default_value) ==
    [name |-> name, type |-> type, is_primary_key |-> pk, is_not_null |-> nn,
     is_auto_increment |-> ai, default_value |-> default_value]

\* name type [NOT NULL] [AUTO_INCREMENT] [PRIMARY KEY] [DEFAULT v]
RenderColumn(c) ==
    c.name \o <<" ">> \o c.type
    \o (IF c.is_not_null THEN <<" ", "N", "O", "T", " ", "N", "U", "L", "L">> ELSE <<>>)
    \o (IF c.is_auto_increment THEN <<" ", "A", "U", "T", "O", "_", "I", "N", "C", "R", "E", "M", "E", "N", "T">> ELSE <<>>)
    \o (IF c.is_primary_key THEN <<" ", "P", "R", "I", "M", "A", "R", "Y", " ", "K", "E", "Y">> ELSE <<>>)
    \o (IF c.default_value # NULL THEN <<" ", "D", "E", "F", "A", "U", "L", "T", " ">> \o Deref(c.default_value)
        ELSE <<>>)

RenderColumns(cols) ==
    Join([i \in 1..Len(cols) |-> RenderColumn(cols[i])], <<",", " ">>)

CreateTable(name, body) == <<"C", "R", "E", "A", "T", "E", " ", "T", "A", "B", "L", "E", " ">> \o name \o <<" ", "(">> \o body \o <<")", ";">>

ColumnPool ==
    { Column(<<"i", "d">>, <<"I", "N", "T">>, TRUE, TRUE, TRUE, NULL),
      Column(<<"n", "a", "m", "e">>, <<"V", "A", "R", "C", "H", "A", "R", "(", "5", "0", ")">>, FALSE, TRUE, FALSE, NULL),
      Column(<<"b", "i", "o">>, <<"T", "E", "X", "T">>, FALSE, FALSE, FALSE, Ptr(<<"N", "U", "L", "L">>)),
      Column(<<"p", "r", "i", "c", "e">>, <<"D", "E", "C", "I", "M", "A", "L", "(", "1", "0", ",", "2", ")">>, FALSE, FALSE, FALSE, Ptr(<<"0">>)) }

\* the column lists of 1..MaxColumns distinct columns of the pool
ColumnLists ==
    UNION { { cols \in [1..n -> ColumnPool] :
                \A i, j \in 1..n : i # j => cols[i] # cols[j] } :
            n \in 1..MaxColumns }

UsersExample ==
    <<Column(<<"i", "d">>, <<"I", "N", "T">>, TRUE, TRUE, TRUE, NULL),
      Column(<<"n", "a", "m", "e">>, <<"V", "A", "R", "C", "H", "A", "R", "(", "5", "0", ")">>, FALSE, TRUE, FALSE, NULL),
      Column(<<"b", "i", "o">>, <<"T", "E", "X", "T">>, FALSE, FALSE, FALSE, Ptr(<<"N", "U", "L", "L">>))>>

\* CREATE TABLE users (<column list>);
ColumnListFile(cols) == CreateTable(<<"u", "s", "e", "r", "s">>, RenderColumns(cols))

ColumnListFiles ==
    {ColumnListFile(cols) : cols \in ColumnLists \cup {UsersExample}}

\* the columns in front of a table-level PRIMARY KEY
KeyedColumns ==
    <<Column(<<"i", "d">>, <<"I", "N", "T">>, FALSE, TRUE, FALSE, NULL),
      Column(<<"t", "e", "n", "a", "n", "t", "_", "i", "d">>, <<"I", "N", "T">>, FALSE, TRUE, FALSE, NULL),
      Column(<<"n", "a", "m", "e">>, <<"V", "A", "R", "C", "H", "A", "R", "(", "5", "0", ")">>, FALSE, FALSE, FALSE, NULL)>>

KeyLists == { <<<<"i", "d">>>>, <<<<"t", "e", "n", "a", "n", "t", "_", "i", "d">>>>, <<<<"i", "d">>, <<"t", "e", "n", "a", "n", "t", "_", "i", "d">>>>,
              <<<<"t", "e", "n", "a", "n", "t", "_", "i", "d">>, <<"i", "d">>>> }

\* PRIMARY KEY (c1, ..., cn), names quoted by backticks or not, commas
\* followed by a space or not
RenderPrimaryKey(key, quoted, spaced) ==
    <<"P", "R", "I", "M", "A", "R", "Y", " ", "K", "E", "Y", " ", "(">>
    \o Join([i \in 1..Len(key) |->
                IF quoted THEN <<BT>> \o key[i] \o <<BT>> ELSE key[i]],
            IF spaced THEN <<",", " ">> ELSE <<",">>)
    \o <<")">>

\* the key is the last fragment of the body, or a KEY fragment follows it
PrimaryKeyFile(key, quoted, spaced, last) ==
    CreateTable(<<"u", "s", "e", "r", "s">>,
        RenderColumns(KeyedColumns) \o <<",", " ">>
        \o RenderPrimaryKey(key, quoted, spaced)
        \o (IF last THEN <<>> ELSE <<",", " ", "K", "E", "Y", " ", "i", "d", "x", "_", "n", "a", "m", "e", " ", "(", "n", "a", "m", "e", ")">>))

PrimaryKeyFiles ==
    {PrimaryKeyFile(key, quoted, spaced, last) :
        key \in KeyLists, quoted \in BOOLEAN, spaced \in BOOLEAN,
        last \in BOOLEAN}

Statement == <<"C", "R", "E", "A", "T", "E", " ", "T", "A", "B", "L", "E", " ", "t", " ", "(", "a", " ", "I", "N", "T", ")", ";">>

\* the statement inside a comment or a quoted string
CommentedOrQuotedFiles ==
    { <<"-", "-", " ">> \o Statement \o <<"\n">>,
      <<"#", " ">> \o Statement \o <<"\n">>,
      <<"/", "*", " ">> \o Statement \o <<" ", "*", "/">>,
      <<"I", "N", "S", "E", "R", "T", " ", "I", "N", "T", "O", " ", "l", "o", "g", " ", "V", "A", "L", "U", "E", "S", " ", "(", "'">> \o Statement \o <<"'", ")", ";">>,
      <<"I", "N", "S", "E", "R", "T", " ", "I", "N", "T", "O", " ", "l", "o", "g", " ", "V", "A", "L", "U", "E", "S", " ", "(", "\"">> \o Statement \o <<"\"", ")", ";">>,
      <<"S", "E", "L", "E", "C", "T", " ", BT>> \o Statement \o <<BT, " ", "F", "R", "O", "M", " ", "x", ";">> }

\* the keyword glued to identifier characters
IdentifierChars == {"X", "_", "1"}

BadBoundaryFiles ==
    { <<c>> \o Statement : c \in IdentifierChars }
    \cup { <<"C", "R", "E", "A", "T", "E", " ", "T", "A", "B", "L", "E">> \o <<c>> \o <<" ", "t", " ", "(", "a", " ", "I", "N", "T", ")", ";">> : c \in IdentifierChars }

\* statements that end in the file before their body is balanced
\* a dump that ends inside a column list and is longer than the margin of
\* the buffer, so that the second fill has to grow the buffer
LongUnterminated ==
    <<"C", "R", "E", "A", "T", "E", " ", "T", "A", "B", "L", "E", " ", "t", " ", "(", "a", " ", "I", "N", "T">> \o [i \in 1..BUFFER_EXTRA_MARGIN |-> " "]

UnterminatedFiles ==
    { LongUnterminated,
      <<"C", "R", "E", "A", "T", "E", " ", "T", "A", "B", "L", "E", " ", "t", " ", "(", "a", " ", "I", "N", "T">>,
      <<"S", "E", "L", "E", "C", "T", " ", "1", ";", "\n", "C", "R", "E", "A", "T", "E", " ", "T", "A", "B", "L", "E", " ", "t", " ", "(", "a", " ", "I", "N", "T", ",", " ", "b", " ", "V", "A", "R", "C", "H", "A", "R", "(", "5", ")">> }

OtherFiles ==
    { <<>>,
      <<"S", "E", "L", "E", "C", "T", " ", "1", ";", "\n">>,
      Statement,
      <<"\n">> \o Statement \o <<"\n">>,
      <<"c", "r", "e", "a", "t", "e", " ", "t", "a", "b", "l", "e", " ", BT, "t", BT, " ", "(", "a", " ", "I", "N", "T", ")", ";", "\n", "C", "R", "E", "A", "T", "E", " ", "T", "A", "B", "L", "E", " ", "u", " ", "(", "\n", " ", " ", "b", " ", "I", "N", "T", "\n", ")", ";", "\n">>,
      <<"C", "R", "E", "A", "T", "E", " ", "T", "A", "B", "L", "E", " ", "a", " ", "L", "I", "K", "E", " ", "b", ";", "\n", "C", "R", "E", "A", "T", "E", " ", "T", "A", "B", "L", "E", " ", "c", " ", "(", "x", " ", "I", "N", "T", ")", ";", "\n">>,
      <<"C", "R", "E", "A", "T", "E", " ", "T", "A", "B", "L", "E", " ", "u", " ", "(", "\n", " ", " ", "b", " ", "I", "N", "T", "\n", ")", ";", "\n", "C", "R", "E", "A", "T", "E", " ", "T", "A", "B", "L", "E", " ", "v", " ", "(", "c", " ", "I", "N", "T", ")", ";", "\n">>,
      <<"C", "R", "E", "A", "T", "E", " ", "T", "A", "B", "L", "E", " ", "t">> }

\* a column list with a parenthesis inside a quoted default value
QuotedParenFiles ==
    { <<"C", "R", "E", "A", "T", "E", " ", "T", "A", "B", "L", "E", " ", "t", " ", "(", "a", " ", "C", "H", "A", "R", "(", "1", ")", " ", "D", "E", "F", "A", "U", "L", "T", " ", "'", ")", "'", ",", " ", "b", " ", "I", "N", "T", ")", ";", "\n">>,
      <<"S", "E", "L", "E", "C", "T", " ", "1", ";", "\n", "C", "R", "E", "A", "T", "E", " ", "T", "A", "B", "L", "E", " ", "t", " ", "(", "a", " ", "C", "H", "A", "R", "(", "1", ")", " ", "D", "E", "F", "A", "U", "L", "T", " ", "'", "(", "'", ",", " ", "b", " ", "I", "N", "T", ")", ";", "\n">> }

\* two statements for the same table
RepeatedNameFiles ==
    { <<"C", "R", "E", "A", "T", "E", " ", "T", "A", "B", "L", "E", " ", "t", " ", "(", "a", " ", "I", "N", "T", ")", ";", "\n", "C", "R", "E", "A", "T", "E", " ", "T", "A", "B", "L", "E", " ", "t", " ", "(", "b", " ", "I", "N", "T", ")", ";", "\n">>,
      [i \in 1..(64 - 24) |-> " "]
          \o <<"C", "R", "E", "A", "T", "E", " ", "T", "A", "B", "L", "E", " ", "t", " ", "(", "a", " ", "I", "N", "T", ")", ";", "\n", "C", "R", "E", "A", "T", "E", " ", "T", "A", "B", "L", "E", " ", "t", " ", "(", "b", " ", "I", "N", "T", ")", ";", "\n">>,
      [i \in 1..(64 - 48) |-> " "]
          \o <<"C", "R", "E", "A", "T", "E", " ", "T", "A", "B", "L", "E", " ", "a", " ", "(", "x", " ", "I", "N", "T", ")", ";", "\n", "C", "R", "E", "A", "T", "E", " ", "T", "A", "B", "L", "E", " ", "b", " ", "(", "y", " ", "I", "N", "T", ")", ";", "\n">>
          \o <<"C", "R", "E", "A", "T", "E", " ", "T", "A", "B", "L", "E", " ", "a", " ", "L", "I", "K", "E", " ", "c", ";", "\n">> }

\* statements that a read of 64 bytes cuts after the table name, inside the
\* table name and inside the keyword
CutFiles ==
    { [i \in 1..(64 - 15) |-> " "] \o <<"C", "R", "E", "A", "T", "E", " ", "T", "A", "B", "L", "E", " ", "t", " ", "(", "a", " ", "I", "N", "T", ")", ";", "\n">>,
      [i \in 1..(64 - 15) |-> " "] \o <<"C", "R", "E", "A", "T", "E", " ", "T", "A", "B", "L", "E", " ", "u", "s", "e", "r", "s", " ", "(", "i", "d", " ", "I", "N", "T", ")", ";", "\n">>,
      [i \in 1..(64 - 6) |-> " "] \o <<"C", "R", "E", "A", "T", "E", " ", "T", "A", "B", "L", "E", " ", "t", " ", "(", "a", " ", "I", "N", "T", ")", ";", "\n">> }

MaxFragments == 2

\* fragments of a table body: column definitions, a name without a type and
\* table-level constraints
FragmentPool ==
    { <<"b", " ", "I", "N", "T">>,
      <<"b">>,
      <<"P", "R", "I", "M", "A", "R", "Y", " ", "K", "E", "Y", " ", "(", "a", ")">>,
      <<"u", "n", "i", "q", "u", "e", " ", "k", "e", "y", " ", "k", " ", "(", "a", ")">>,
      <<"C", "O", "N", "S", "T", "R", "A", "I", "N", "T", " ", "c", " ", "F", "O", "R", "E", "I", "G", "N", " ", "K", "E", "Y", " ", "(", "a", ")", " ", "R", "E", "F", "E", "R", "E", "N", "C", "E", "S", " ", "u", " ", "(", "x", ")">>,
      <<"K", "E", "Y", " ", "k", " ", "(", "a", ")">>,
      <<"K", "E", "Y", "(", "a", ")", " ", "U", "S", "I", "N", "G", " ", "B", "T", "R", "E", "E">>,
      <<"F", "O", "R", "E", "I", "G", "N", " ", "K", "E", "Y", " ", "(", "a", ")", " ", "R", "E", "F", "E", "R", "E", "N", "C", "E", "S", " ", "u", " ", "(", "x", ")">> }

\* CREATE TABLE t (a INT, <1..MaxFragments fragments of the pool>);
FragmentFiles ==
    { CreateTable(<<"t">>, Join(<<<<"a", " ", "I", "N", "T">>>> \o frags, <<",", " ">>)) :
        frags \in UNION {[1..n -> FragmentPool] : n \in 1..MaxFragments} }

\* column definitions whose type has an argument list
TypePool ==
    { <<"a", " ", "V", "A", "R", "C", "H", "A", "R", "(", "5", "0", ")">>,
      <<"b", " ", "D", "E", "C", "I", "M", "A", "L", "(", "1", "0", ",", "2", ")", " ", "N", "O", "T", " ", "N", "U", "L", "L">>,
      <<"c", " ", "E", "N", "U", "M", "(", "'", "a", "'", ",", "'", "b", "'", ")">>,
      <<"d", " ", "E", "N", "U", "M", "(", "'", "a", "'", ",", " ", "'", "b", "'", ",", " ", "'", "c", "'", ")">>,
      <<"e", " ", "I", "N", "T">> }

\* CREATE TABLE t (<1..MaxColumns definitions of the pool>);
TypeFiles ==
    { CreateTable(<<"t">>, Join(defs, <<",", " ">>)) :
        defs \in UNION {[1..n -> TypePool] : n \in 1..MaxColumns} }

\* table names in double quotes, in brackets, in backticks with a space and
\* with a doubled backtick inside, and undelimited names
DelimitedNameFiles ==
    { <<"C", "R", "E", "A", "T", "E", " ", "T", "A", "B", "L", "E", " ", "\"", "t", "\"", " ", "(", "a", " ", "I", "N", "T", ")", ";", "\n">>,
      <<"C", "R", "E", "A", "T", "E", " ", "T", "A", "B", "L", "E", " ", "[", "t", "]", " ", "(", "a", " ", "I", "N", "T", ")", ";", "\n">>,
      <<"C", "R", "E", "A", "T", "E", " ", "T", "A", "B", "L", "E", " ", BT, "a", " ", "b", BT, " ", "(", "a", " ", "I", "N", "T", ")", ";", "\n">>,
      <<"C", "R", "E", "A", "T", "E", " ", "T", "A", "B", "L", "E", " ", BT, "a", BT, BT, "b", BT, " ", "(", "a", " ", "I", "N", "T", ")", ";", "\n">>,
      <<"C", "R", "E", "A", "T", "E", " ", "T", "A", "B", "L", "E", " ", "d", "b", ".", "t", "$", "1", " ", "(", "a", " ", "I", "N", "T", ")", ";", "\n">>,
      <<"C", "R", "E", "A", "T", "E", " ", "T", "A", "B", "L", "E", " ", "t", "_", "2", ";", "\n">> }

Files ==
    DelimitedNameFiles \cup ColumnListFiles \cup PrimaryKeyFiles \cup CommentedOrQuotedFiles
    \cup BadBoundaryFiles \cup UnterminatedFiles \cup OtherFiles
    \cup QuotedParenFiles \cup RepeatedNameFiles \cup CutFiles
    \cup FragmentFiles \cup TypeFiles

\* the read sizes of the chunk-boundary tests, CHUNK_SIZE being the build's
ChunkSizes == {1, 7, 64, CHUNK_SIZE}

(***************************************************************************)
(* Specification of a scan: process_sql_file on a fresh context            *)
(***************************************************************************)
\* main, read_index_from_file and get_first_row_sample before they run
NoMain == [load_from_index |-> FALSE, write_to_index |-> FALSE,
           success |-> TRUE, index |-> EmptyIndex, current_sha |-> <<>>]

NoLoad == [fp |-> 0, index |-> EmptyIndex, sql_file_sha256 |-> <<>>,
           name_buffer |-> NULL, returned |-> "no"]

NoHistory == [existed |-> FALSE, computed |-> NULL, hash_failed |-> FALSE,
              scanned |-> FALSE, written |-> NULL, printed |-> NULL,
              status |-> NULL]

NoPrev == [index_file |-> NULL, sha256_support |-> FALSE,
           hash_failed |-> FALSE, modified |-> FALSE, exited |-> FALSE,
           written |-> NULL]

NoSample == [fp |-> 0, returned |-> FALSE, result |-> NULL, row |-> NULL]

Idle ==
    /\ index_file = NULL
    /\ sha256_support = FALSE
    /\ run = 1
    /\ mainv = NoMain
    /\ loaded = NoLoad
    /\ history = NoHistory
    /\ prev = NoPrev
    /\ sample_in = NULL
    /\ sample = NoSample
    /\ cli = NoCli

Init ==
    /\ sql_file \in Files
    /\ chunk_size \in ChunkSizes
    /\ faults = "none"
    /\ fault_hit = FALSE
    /\ ctx = initialize_context(chunk_size)
    /\ bytes_read = 0
    /\ pc = "read"
    /\ Idle

Next == Read \/ Process

Spec == Init /\ [][Next]_vars

\* the program keeps running: an enabled step of the read loop is taken
FairSpec == Spec /\ WF_vars(Read) /\ WF_vars(Process)

(***************************************************************************)
(* Claims about the scan                                                   *)
(***************************************************************************)
ScanDone == pc = "scan_done"

\* a scan that holds the whole file in one buffer: one call of
\* process_chunk on the file
SingleBufferScan(file, past_end_stops) ==
    process_chunk([initialize_context(CHUNK_SIZE) EXCEPT
                      !.buffer = file, !.buffer_data_len = Len(file)],
                  past_end_stops, -1, -1)

\* C1: for every file and every read size the finished scan has built the
\* index that a scan of the whole file in one buffer builds (when that scan
\* consumes the file).
C1_ChunkBoundaryIndependence ==
    ScanDone =>
        \E past_end_stops \in BOOLEAN :
        \E whole \in {SingleBufferScan(sql_file, past_end_stops)} :
            \/ whole.returned
            \/ ctx.index = whole.index

\* C2: a file whose only CREATE TABLE keyword lies inside a line comment, a
\* block comment or a quoted string never gets an index entry.
C2_NoEntryInsideCommentOrString ==
    sql_file \in CommentedOrQuotedFiles => Len(ctx.index) = 0

\* a keyword occurrence at offset q of the file with the boundaries the
\* claim asks for
ValidKeywordAt(file, q) ==
    /\ strncasecmp_eq(file, q, CREATE_TABLE_KEYWORD)
    /\ \/ q = 0
       \/ IsSpace(file[q])
       \/ file[q] \in {";", "(", "/", "*"}
    /\ q + CREATE_TABLE_LEN < Len(file)
    /\ \/ IsSpace(file[q + CREATE_TABLE_LEN + 1])
       \/ file[q + CREATE_TABLE_LEN + 1] = "("

\* C3: an entry is added only when the file holds a CREATE TABLE keyword
\* whose byte before is absent, white space or one of ; ( / * and whose
\* byte after is white space or (.
C3_KeywordBoundary ==
    Len(ctx.index) > 0 =>
        \E q \in 0..(Len(sql_file) - 1) : ValidKeywordAt(sql_file, q)

\* C4: scanning CREATE TABLE users (<definitions>); in one buffer yields one
\* entry users whose columns are the declared ones, in declaration order,
\* with the declared type, attributes and default, the last one included.
C4_ColumnList ==
    ScanDone /\ chunk_size = CHUNK_SIZE =>
        \A cols \in ColumnLists \cup {UsersExample} :
            sql_file = ColumnListFile(cols) =>
                /\ Len(ctx.index) = 1
                /\ ctx.index[1].type = TABLE
                /\ ctx.index[1].name = <<"u", "s", "e", "r", "s">>
                /\ Deref(ctx.index[1].table_info).columns = cols

\* C5: a table-level PRIMARY KEY (c1, ..., cn) after the column definitions
\* marks exactly the named columns as primary key.
C5_TableLevelPrimaryKey ==
    ScanDone /\ chunk_size = CHUNK_SIZE =>
        \A key \in KeyLists, quoted, spaced, last \in BOOLEAN :
            sql_file = PrimaryKeyFile(key, quoted, spaced, last) =>
                /\ Len(ctx.index) = 1
                /\ LET cols == Deref(ctx.index[1].table_info).columns
                   IN /\ Len(cols) = Len(KeyedColumns)
                      /\ \A i \in 1..Len(cols) :
                            cols[i].is_primary_key <=> cols[i].name \in Range(key)

\* C8: process_sql_file terminates for every finite file: every run of the
\* read loop, the file ending inside an unbalanced column list included,
\* comes to its end (or to the end of the process).
C8_ScanTerminates == <>(pc \in {"scan_done", "crashed"})

(***************************************************************************)
(* main: load the index file or scan the dump, over successive runs        *)
(***************************************************************************)
MaxRuns == 2

\* the dumps main is run on
MainFileList ==
    << ColumnListFile(UsersExample),
       CreateTable(<<"t">>, <<"p", "r", "i", "c", "e", " ", "D", "E", "C", "I", "M", "A", "L", "(", "1", "0", ",", "2", ")", " ", "D", "E", "F", "A", "U", "L", "T", " ", "0", ",", " ", "q", "t", "y", " ", "I", "N", "T">>),
       <<"C", "R", "E", "A", "T", "E", " ", "T", "A", "B", "L", "E", " ", "a", " ", "(", "x", " ", "I", "N", "T", ")", ";", "\n", "C", "R", "E", "A", "T", "E", " ", "T", "A", "B", "L", "E", " ", "b", " ", "(", "y", " ", "T", "E", "X", "T", ",", " ", "z", " ", "I", "N", "T", " ", "N", "O", "T", " ", "N", "U", "L", "L", ")", ";", "\n">>,
       <<"C", "R", "E", "A", "T", "E", " ", "T", "A", "B", "L", "E", " ", "t", " ", "(", ")", ";">>,
       <<"C", "R", "E", "A", "T", "E", " ", "T", "A", "B", "L", "E", " ", BT, BT, " ", "(", "a", " ", "I", "N", "T", ")", ";">>,
       <<"C", "R", "E", "A", "T", "E", " ", "T", "A", "B", "L", "E", " ", "t", " ", "(", "a", " ", "I", "N", "T">>,
       <<"C", "R", "E", "A", "T", "E", " ", "T", "A", "B", "L", "E", " ", "t">>,
       <<"S", "E", "L", "E", "C", "T", " ", "1", ";", "\n">>,
       LongUnterminated >>

MainFiles == Range(MainFileList)

HexDigits == <<"0", "1", "2", "3", "4", "5", "6", "7", "8", "9", "a", "b", "c", "d", "e", "f">>

\* the output of sha256sum on a file: 64 hexadecimal digits.  SHA-256 is
\* taken to be free of collisions on the files of the model: the digest
\* spells the place of the file in MainFileList.
sha256sum(file) ==
    Let(CHOOSE k \in 1..Len(MainFileList) : MainFileList[k] = file, LAMBDA k :
        [i \in 1..SHA256_LEN |->
            IF i < SHA256_LEN THEN "0" ELSE HexDigits[k + 1]])

\* calculate_sha256_main: hash_buffer is filled when the pipe opens and
\* sha256sum prints a digest (pipe_ok)
calculate_sha256_main(file, hash_buffer, pipe_ok) ==
    IF pipe_ok THEN [ok |-> TRUE, hash_buffer |-> sha256sum(file)]
    ELSE [ok |-> FALSE, hash_buffer |-> hash_buffer]

\* the comparison with its sense inverted
digest_matches_inverted(stored_sha, current_sha) == stored_sha # current_sha

\* strcmp(index.sql_file_sha256, current_sha) == 0
digest_matches(stored_sha, current_sha) == stored_sha = current_sha

\* ParsingContext ctx = {0}
ZeroContext ==
    [file_pos |-> 0, buffer |-> <<>>, buffer_size |-> 0,
     buffer_data_len |-> 0, global_offset |-> 0, current_line |-> 0,
     last_newline_offset |-> 0, state |-> STATE_CODE,
     index |-> EmptyIndex, error_occurred |-> FALSE]

\* main up to the read loop of read_index_from_file: sha256sum is looked
\* for, access() tells whether the index file exists, and the loader reads
\* the first line
MainStart ==
    /\ pc = "main"
    /\ \E support \in BOOLEAN : sha256_support' = support
    /\ history' = [NoHistory EXCEPT !.existed = index_file # NULL]
    /\ IF index_file # NULL
       THEN /\ loaded' = load_header(Deref(index_file))
            /\ mainv' = NoMain
            /\ pc' = "load"
       ELSE /\ loaded' = NoLoad
            /\ mainv' = [NoMain EXCEPT !.write_to_index = TRUE]
            /\ pc' = "decided"
    /\ UNCHANGED cli
    /\ UNCHANGED <<scan_vars, index_file, run, prev, sample_vars>>

\* one line of the index file, or the return of read_index_from_file
LoadLine ==
    /\ pc = "load"
    /\ \E garbage \in uninitialised(Deref(index_file), loaded) :
       \E ld \in {load_line(Deref(index_file), loaded, garbage)} :
          /\ loaded' = ld
          /\ pc' = IF ld.returned = "no" THEN "load"
                   ELSE IF ld.returned = "crashed" THEN "crashed"
                   ELSE "verify"
    /\ UNCHANGED cli
    /\ UNCHANGED <<scan_vars, index_file, sha256_support, run, mainv,
                   history, prev, sample_vars>>

\* the decision without the assignment of write_to_index after a digest
\* that differs
verify_index_without_write(m, ld, support, file, pipe_ok) ==
    IF ld.returned # "true"
    THEN [m EXCEPT !.write_to_index = TRUE]
    ELSE IF support /\ ld.sql_file_sha256 # <<>>
    THEN Let(calculate_sha256_main(file, m.current_sha, pipe_ok), LAMBDA h :
            IF h.ok
            THEN IF digest_matches(ld.sql_file_sha256, h.hash_buffer)
                 THEN [m EXCEPT !.index = ld.index,
                                !.current_sha = h.hash_buffer,
                                !.load_from_index = TRUE]
                 ELSE [m EXCEPT !.index = EmptyIndex,
                                !.current_sha = h.hash_buffer]
            ELSE [m EXCEPT !.index = EmptyIndex,
                           !.write_to_index = TRUE])
    ELSE [m EXCEPT !.index = ld.index, !.load_from_index = TRUE]

\* the decision of main once read_index_from_file has returned
verify_index(m, ld, support, file, pipe_ok) ==
    IF ld.returned # "true"
    THEN [m EXCEPT !.write_to_index = TRUE]
    ELSE IF support /\ ld.sql_file_sha256 # <<>>
    THEN Let(calculate_sha256_main(file, m.current_sha, pipe_ok), LAMBDA h :
            IF h.ok
            THEN IF digest_matches(ld.sql_file_sha256, h.hash_buffer)
                 THEN [m EXCEPT !.index = ld.index,
                                !.current_sha = h.hash_buffer,
                                !.load_from_index = TRUE]
                 ELSE [m EXCEPT !.index = EmptyIndex,
                                !.current_sha = h.hash_buffer,
                                !.write_to_index = TRUE]
            ELSE [m EXCEPT !.index = EmptyIndex,
                           !.write_to_index = TRUE])
    ELSE [m EXCEPT !.index = ld.index, !.load_from_index = TRUE]

MainVerify ==
    /\ pc = "verify"
    /\ \E pipe_ok \in BOOLEAN :
          /\ mainv' = verify_index(mainv, loaded, sha256_support, sql_file,
                                   pipe_ok)
          /\ history' =
                IF /\ loaded.returned = "true"
                   /\ sha256_support
                   /\ loaded.sql_file_sha256 # <<>>
                THEN [history EXCEPT
                        !.computed = IF pipe_ok THEN Ptr(sha256sum(sql_file))
                                     ELSE NULL,
                        !.hash_failed = ~pipe_ok]
                ELSE history
    /\ pc' = "decided"
    /\ UNCHANGED cli
    /\ UNCHANGED <<scan_vars, index_file, sha256_support, run, loaded, prev,
                   sample_vars>>

\* if (!load_from_index): initialize_context, then process_sql_file;
\* initialize_context returns false when fopen or the malloc of the buffer
\* fails
MainScan ==
    /\ pc = "decided"
    /\ IF ~mainv.load_from_index
       THEN \E open_fails \in Fails :
              IF open_fails
              THEN /\ mainv' = [mainv EXCEPT !.success = FALSE]
                   /\ fault_hit' = TRUE
                   /\ pc' = "report"
                   /\ UNCHANGED <<ctx, bytes_read, history>>
              ELSE /\ ctx' = initialize_context(CHUNK_SIZE)
                   /\ bytes_read' = 0
                   /\ history' = [history EXCEPT !.scanned = TRUE]
                   /\ pc' = "read"
                   /\ UNCHANGED <<mainv, fault_hit>>
       ELSE /\ UNCHANGED <<ctx, bytes_read, history, mainv, fault_hit>>
            /\ pc' = "report"
    /\ UNCHANGED cli
    /\ UNCHANGED <<sql_file, chunk_size, faults, index_file, sha256_support, run,
                   loaded, prev, sample_vars>>

\* main taking the index over whatever process_sql_file returned
after_scan_ignoring_error(m, c, support, file, pipe_ok) ==
    [m EXCEPT !.index = c.index]

\* main after process_sql_file returned: the index is taken over from ctx
\* and, if write_to_index, written with the digest
after_scan(m, c, support, file, pipe_ok) ==
    IF c.error_occurred THEN [m EXCEPT !.success = FALSE]
    ELSE IF m.write_to_index /\ support /\ m.current_sha = <<>>
    THEN [m EXCEPT !.index = c.index,
                   !.current_sha =
                       calculate_sha256_main(file, @, pipe_ok).hash_buffer]
    ELSE [m EXCEPT !.index = c.index]

MainScanned ==
    /\ pc = "scan_done"
    /\ \E pipe_ok \in BOOLEAN :
       \E m \in {after_scan(mainv, ctx, sha256_support, sql_file, pipe_ok)} :
          /\ mainv' = m
          /\ IF ~ctx.error_occurred /\ m.write_to_index
             THEN /\ index_file' =
                        Ptr(write_index_to_file(m.index,
                                IF sha256_support THEN Ptr(m.current_sha)
                                ELSE NULL))
                  /\ history' =
                        [history EXCEPT
                           !.written = Ptr(m.index),
                           !.hash_failed =
                               @ \/ (sha256_support /\ m.current_sha = <<>>)]
             ELSE UNCHANGED <<index_file, history>>
    /\ ctx' = IF ctx.error_occurred THEN ZeroContext
              ELSE [ZeroContext EXCEPT !.error_occurred = FALSE]
    /\ pc' = "report"
    /\ UNCHANGED cli
    /\ UNCHANGED <<sql_file, chunk_size, faults, fault_hit, bytes_read,
                   sha256_support, run,
                   loaded, prev, sample_vars>>

\* the results are printed with a sample row of the first table, the index
\* is freed and main returns
MainExit ==
    /\ pc = "report"
    /\ IF /\ mainv.success
          /\ Len(mainv.index) > 0
          /\ mainv.index[1].table_info # NULL
       THEN \E info \in {Deref(mainv.index[1].table_info)} :
               /\ sample_in' = Ptr([start_offset |-> info.end_offset,
                                    table_name |-> info.name,
                                    given |-> TRUE])
               /\ sample' = [NoSample EXCEPT
                               !.returned = TRUE,
                               !.result = get_first_row_sample(sql_file,
                                              info.end_offset, info.name,
                                              CHUNK_SIZE)]
       ELSE UNCHANGED sample_vars
    /\ history' = [history EXCEPT
                      !.printed = IF mainv.success THEN Ptr(mainv.index)
                                  ELSE NULL,
                      !.status = IF mainv.success THEN Ptr(0) ELSE Ptr(1)]
    /\ pc' = "exited"
    /\ UNCHANGED cli
    /\ UNCHANGED <<scan_vars, index_file, sha256_support, run, mainv, loaded,
                   prev>>

\* the program is started again; the dump may have been replaced meanwhile
NextRun ==
    /\ pc \in {"exited", "crashed"}
    /\ run < MaxRuns
    /\ \E file \in MainFiles :
          /\ sql_file' = file
          /\ prev' = [index_file |-> index_file,
                      sha256_support |-> sha256_support,
                      hash_failed |-> history.hash_failed,
                      modified |-> file # sql_file,
                      exited |-> pc = "exited",
                      written |-> IF history.written # NULL
                                  THEN history.written ELSE prev.written]
    /\ run' = run + 1
    /\ pc' = "main"
    /\ fault_hit' = FALSE
    /\ ctx' = ZeroContext
    /\ bytes_read' = 0
    /\ mainv' = NoMain
    /\ loaded' = NoLoad
    /\ history' = NoHistory
    /\ sample_in' = NULL
    /\ sample' = NoSample
    /\ UNCHANGED cli
    /\ UNCHANGED <<chunk_size, faults, index_file, sha256_support>>

InitMain ==
    /\ sql_file \in MainFiles
    /\ chunk_size = CHUNK_SIZE
    /\ faults = "none"
    /\ fault_hit = FALSE
    /\ ctx = ZeroContext
    /\ bytes_read = 0
    /\ pc = "main"
    /\ Idle

NextMain ==
    \/ MainStart
    \/ LoadLine
    \/ MainVerify
    \/ MainScan
    \/ Read
    \/ Process
    \/ MainScanned
    \/ MainExit
    \/ NextRun

SpecMain == InitMain /\ [][NextMain]_vars

\* runs of main in which fopen, fread and the allocator may fail
InitFault ==
    /\ sql_file \in MainFiles
    /\ chunk_size = CHUNK_SIZE
    /\ faults = "fatal"
    /\ fault_hit = FALSE
    /\ ctx = ZeroContext
    /\ bytes_read = 0
    /\ pc = "main"
    /\ Idle

SpecFault == InitFault /\ [][NextMain]_vars

\* runs of main in which growing the column array of a table may fail
InitColumnFault ==
    /\ sql_file \in MainFiles
    /\ chunk_size = CHUNK_SIZE
    /\ faults = "column"
    /\ fault_hit = FALSE
    /\ ctx = ZeroContext
    /\ bytes_read = 0
    /\ pc = "main"
    /\ Idle

SpecColumnFault == InitColumnFault /\ [][NextMain]_vars

(***************************************************************************)
(* Claims about the index file and the runs of main                        *)
(***************************************************************************)
\* the index file was written by an earlier run and the loader has read it
\* to its end
LoadedWritten ==
    /\ pc = "verify"
    /\ loaded.returned = "true"
    /\ prev.written # NULL

\* C6: read_index_from_file applied to the file that write_index_to_file
\* wrote from a non-empty store of the scanner yields an equal store.
C6_RoundTrip ==
    LoadedWritten /\ Len(Deref(prev.written)) > 0 =>
        loaded.index = Deref(prev.written)

\* a run that follows a completed run on the same, unmodified dump, with
\* sha256sum present and every digest computed in both runs
HashGuardedRerun ==
    /\ run >= 2
    /\ pc = "exited"
    /\ prev.exited
    /\ ~prev.modified
    /\ prev.sha256_support /\ sha256_support
    /\ ~prev.hash_failed /\ ~history.hash_failed

\* C9: after the second of two runs on an unmodified dump with the hash
\* guard enabled the index file holds the bytes it held after the first.
C9_Determinism == HashGuardedRerun => index_file = prev.index_file

\* the second run found the index file of the first, which holds a table
C9_Witness ==
    /\ HashGuardedRerun
    /\ history.existed
    /\ loaded.sql_file_sha256 # <<>>
    /\ Len(mainv.index) > 0

\* the index file existed, was loaded, carries a digest, sha256sum is
\* present and the digest of the dump was computed
HashChecked ==
    /\ pc \in {"decided", "read", "process", "scan_done", "report",
               "exited", "crashed"}
    /\ history.existed
    /\ loaded.returned = "true"
    /\ loaded.sql_file_sha256 # <<>>
    /\ sha256_support
    /\ history.computed # NULL

\* C10: when the recomputed digest differs from the stored one the loaded
\* index is discarded, the dump is scanned and the index file is written
\* anew with the new digest; when they are equal the loaded index is used,
\* the dump is not scanned and the index file is left as it was.
C10_HashGuard ==
    HashChecked =>
        IF Deref(history.computed) = loaded.sql_file_sha256
        THEN /\ mainv.load_from_index /\ ~mainv.write_to_index
             /\ ~history.scanned
             /\ pc \in {"decided", "report", "exited"}
             /\ mainv.index = loaded.index
             /\ history.written = NULL
             /\ index_file = prev.index_file
        ELSE /\ ~mainv.load_from_index /\ mainv.write_to_index
             /\ pc # "decided" => history.scanned
             /\ pc \in {"decided", "read", "process", "scan_done"} =>
                    mainv.index = EmptyIndex
             /\ pc \in {"report", "exited"} =>
                    /\ history.written = Ptr(mainv.index)
                    /\ index_file =
                          Ptr(write_index_to_file(mainv.index,
                                                  history.computed))

\* a run that found a stale index, scanned the dump and wrote the index
C10_Witness ==
    /\ HashChecked
    /\ pc = "exited"
    /\ Deref(history.computed) # loaded.sql_file_sha256
    /\ Len(loaded.index) > 0
    /\ Len(mainv.index) > 0
    /\ mainv.index # loaded.index

\* main has decided what to do with an index file that loaded and carries
\* no digest
LoadedWithoutDigest ==
    /\ pc \in {"decided", "read", "process", "scan_done", "report", "exited"}
    /\ history.existed
    /\ loaded.returned = "true"
    /\ loaded.sql_file_sha256 = <<>>

\* C11: an index file that loads without a content digest is treated as
\* stale: the loaded index is not reused and the SQL file is scanned again.
C11_MissingHashIsStale ==
    LoadedWithoutDigest =>
        /\ ~mainv.load_from_index
        /\ pc # "decided" => history.scanned

\* C12: once a call of the scan has failed (fopen, fread, an allocation of
\* the buffer or of an index entry), process_sql_file returns failure, main
\* exits with a status other than 0 without printing the index, and the
\* index file is left as the run found it.
C12_FatalScanError ==
    fault_hit =>
        /\ pc = "scan_done" => ctx.error_occurred
        /\ pc \in {"report", "exited"} =>
              /\ ~mainv.success
              /\ history.written = NULL
              /\ index_file = prev.index_file
        /\ pc = "exited" =>
              /\ history.status # Ptr(0)
              /\ history.printed = NULL

\* a run that found an index file, began to scan the dump again and met a
\* failing call has exited
C12_Witness ==
    /\ fault_hit
    /\ pc = "exited"
    /\ history.scanned
    /\ history.existed
    /\ history.status = Ptr(1)

(***************************************************************************)
(* Specification of one run of main on an index file of any content       *)
(***************************************************************************)
MaxLines == 3

\* lines of an index file: table lines with and without END_OFFSET, column
\* lines with and without the flags, an entry of another type, and lines
\* of fewer than three fields
IndexLines ==
    { <<"T", "A", "B", "L", "E", ",", "u", "s", "e", "r", "s", ",", "1", ",", "4", "0">>,
      <<"T", "A", "B", "L", "E", ",", "t", ",", "3">>,
      <<"C", "O", "L", "U", "M", "N", ",", "u", "s", "e", "r", "s", ",", "i", "d", ",", "I", "N", "T", ",", "1", ",", "1", ",", "1", ",">>,
      <<"C", "O", "L", "U", "M", "N", ",", "t", ",", "a", ",", "I", "N", "T">>,
      <<"V", "I", "E", "W", ",", "t", ",", "2">>,
      <<"x", ",", "y">>,
      <<"x">> }

\* the text of a file that holds the lines, each ended by a newline
FileOfLines(lines) == Join([i \in 1..Len(lines) |-> lines[i] \o <<"\n">>], <<>>)

\* a table name on two table lines, with another table between them
RepeatedTableLines ==
    <<<<"T", "A", "B", "L", "E", ",", "t", ",", "3">>, <<"T", "A", "B", "L", "E", ",", "u", "s", "e", "r", "s", ",", "1", ",", "4", "0">>, <<"T", "A", "B", "L", "E", ",", "t", ",", "3">>, <<"C", "O", "L", "U", "M", "N", ",", "t", ",", "a", ",", "I", "N", "T">>>>

IndexLineLists ==
    UNION {[1..n -> IndexLines] : n \in 0..MaxLines} \cup {RepeatedTableLines}

InitLoad ==
    /\ sql_file = MainFileList[1]
    /\ chunk_size = CHUNK_SIZE
    /\ faults = "none"
    /\ fault_hit = FALSE
    /\ ctx = ZeroContext
    /\ bytes_read = 0
    /\ pc = "main"
    /\ index_file \in {Ptr(FileOfLines(lines)) : lines \in IndexLineLists}
    /\ sha256_support = FALSE
    /\ run = 1
    /\ mainv = NoMain
    /\ loaded = NoLoad
    /\ history = NoHistory
    /\ prev = NoPrev
    /\ sample_in = NULL
    /\ sample = NoSample
    /\ cli = NoCli

\* one run of main
NextLoad ==
    \/ MainStart
    \/ LoadLine
    \/ MainVerify
    \/ MainScan
    \/ Read
    \/ Process
    \/ MainScanned
    \/ MainExit

SpecLoad == InitLoad /\ [][NextLoad]_vars

\* the lines of a text, without their newlines
RECURSIVE LinesFrom(_, _)
LinesFrom(stream, fp) ==
    Let(read_line_from_index(stream, fp, LINE_BUFFER_SIZE), LAMBDA rl :
        IF rl.line = NULL THEN <<>>
        ELSE <<Deref(rl.line)>> \o LinesFrom(stream, rl.fp))

LinesOf(stream) == LinesFrom(stream, 0)

IsColumnLine(line) == strncmp_eq(line, 0, <<"C", "O", "L", "U", "M", "N", ",">>)

\* a line that adds an entry of type TABLE
IsTableLine(line) ==
    /\ ~IsColumnLine(line)
    /\ sscanf(line, ENTRY_FORMAT).count >= 3
    /\ sscanf(line, ENTRY_FORMAT).vals[1] = TABLE

\* read_index_from_file has returned
LoadReturned == pc \in {"verify", "decided"}

\* the index file has a COLUMN line that no table line precedes
OrphanColumn ==
    \E k \in 1..Len(LinesOf(Deref(index_file))) :
        /\ IsColumnLine(LinesOf(Deref(index_file))[k])
        /\ \A j \in 1..(k - 1) : ~IsTableLine(LinesOf(Deref(index_file))[j])

\* C17: read_index_from_file returns failure on an index file in which a
\* COLUMN line comes before any table line.
C17_OrphanColumnFatal ==
    LoadReturned /\ OrphanColumn => loaded.returned = "false"

\* a line that is not a COLUMN line and has fewer than three fields
IsMalformedLine(line) ==
    /\ ~IsColumnLine(line)
    /\ sscanf(line, ENTRY_FORMAT).count < 3

RemoveAt(lines, k) == SubSeq(lines, 1, k - 1) \o SubSeq(lines, k + 1, Len(lines))

\* the ways in which read_index_from_file may end once it is in ld
RECURSIVE LoadResults(_, _)
LoadResults(stream, ld) ==
    IF ld.returned # "no" THEN {ld}
    ELSE UNION {LoadResults(stream, load_line(stream, ld, garbage)) :
                   garbage \in uninitialised(stream, ld)}

\* C18: a line that is not a COLUMN line and has fewer than three fields
\* does not make read_index_from_file fail, and the store that is loaded is
\* one that the file without the line loads.
C18_MalformedLineSkipped ==
    LoadReturned =>
        \A k \in 1..Len(LinesOf(Deref(index_file))) :
            IsMalformedLine(LinesOf(Deref(index_file))[k]) =>
                \E without \in LoadResults(
                        FileOfLines(RemoveAt(LinesOf(Deref(index_file)), k)),
                        load_header(FileOfLines(
                            RemoveAt(LinesOf(Deref(index_file)), k)))) :
                    /\ without.returned = loaded.returned
                    /\ without.index = loaded.index

\* C25: when the allocation for a column of a table fails during the scan,
\* error_occurred is set and process_sql_file returns failure.
C25_ColumnAllocationFatal ==
    faults = "column" /\ fault_hit =>
        /\ pc = "scan_done" => ctx.error_occurred
        /\ pc \in {"report", "exited"} => ~mainv.success

\* the name field of a table line or of a COLUMN line
LineName(line) ==
    IF IsColumnLine(line) THEN sscanf(line, COLUMN_FORMAT).vals[1]
    ELSE sscanf(line, ENTRY_FORMAT).vals[2]

\* the number of the last table line before line k, or 0
TableLineBefore(lines, k) ==
    LastOf({j \in 1..(k - 1) : IsTableLine(lines[j])}, 0)

\* C26: every column of a loaded table comes from a COLUMN line whose most
\* recent table line before it is a line for that table.
C26_ColumnsOfLastTableLine ==
    LoadReturned /\ loaded.returned = "true" =>
        LET lines == LinesOf(Deref(index_file))
        IN \A i \in 1..Len(loaded.index) :
              loaded.index[i].table_info # NULL =>
                 \A c \in 1..Len(Deref(loaded.index[i].table_info).columns) :
                    \E k \in 1..Len(lines) :
                       /\ IsColumnLine(lines[k])
                       /\ sscanf(lines[k], COLUMN_FORMAT).count >= 3
                       /\ sscanf(lines[k], COLUMN_FORMAT).vals[2] =
                              Deref(loaded.index[i].table_info).columns[c].name
                       /\ TableLineBefore(lines, k) # 0
                       /\ LineName(lines[TableLineBefore(lines, k)]) =
                              loaded.index[i].name

\* the stores of the program: the one a scan builds, the one the loader
\* builds and the one main uses
Stores == {ctx.index, loaded.index, mainv.index}

Decided == pc \in {"decided", "read", "process", "scan_done", "report", "exited"}

\* C37: after the decision exactly one of load_from_index and
\* write_to_index is true; a run that ends has either reused the loaded
\* index without a scan, or scanned the dump and, when the scan succeeded,
\* written the index file.
C37_LoadOrWrite ==
    /\ Decided => (mainv.load_from_index # mainv.write_to_index)
    /\ pc = "exited" =>
          IF mainv.load_from_index
          THEN ~history.scanned /\ history.written = NULL
          ELSE mainv.success => history.scanned /\ history.written # NULL

\* a run has found an index file with a digest that differs, has scanned
\* the dump and has written the index file
C37_Witness ==
    /\ pc = "exited"
    /\ history.existed
    /\ history.computed # NULL
    /\ mainv.write_to_index
    /\ history.scanned
    /\ history.written # NULL

\* the first line of an index file, without its newline
FirstLine(stream) ==
    SubSeq(stream, 1, FirstOf({i \in 1..Len(stream) : stream[i] = "\n"},
                              Len(stream) + 1) - 1)

\* C38: an index file written by a run with sha256sum present starts with
\* a SHA256: line that carries the digest of the dump that was scanned; and
\* a later run with sha256sum present reuses an index file written by such
\* a run only when it has computed the digest of the dump and the dump is
\* the one that was scanned.
C38_WrittenDigest ==
    /\ pc \in {"report", "exited"} /\ history.written # NULL
           /\ sha256_support =>
          FirstLine(Deref(index_file)) = <<"S", "H", "A", "2", "5", "6", ":">> \o sha256sum(sql_file)
    /\ Decided /\ run >= 2 /\ history.existed /\ prev.written # NULL
           /\ prev.sha256_support /\ sha256_support
           /\ mainv.load_from_index =>
          history.computed # NULL /\ ~prev.modified

(***************************************************************************)
(* Specification of a call of get_first_row_sample                         *)
(***************************************************************************)
SampleFiles ==
    { <<"I", "N", "S", "E", "R", "T", " ", "I", "N", "T", "O", " ", "u", "s", "e", "r", "s", " ", "V", "A", "L", "U", "E", "S", " ", "(", "1", ",", "'", "a", "l", "i", "c", "e", "'", ",", "'", "b", "i", "o", " ", "t", "e", "x", "t", "'", ")", ",", "(", "2", ",", "'", "b", "o", "b", "'", ",", "'", "x", "'", ")", ";", "\n">>,
      <<"C", "R", "E", "A", "T", "E", " ", "T", "A", "B", "L", "E", " ", "t", " ", "(", "a", " ", "I", "N", "T", ")", ";", "\n", "I", "N", "S", "E", "R", "T", " ", "I", "N", "T", "O", " ", "t", " ", "V", "A", "L", "U", "E", "S", " ", "(", "1", ",", "2", ")", ",", "(", "3", ",", "4", ")", ";", "\n">>,
      <<"C", "R", "E", "A", "T", "E", " ", "T", "A", "B", "L", "E", " ", "t", " ", "(", "a", " ", "I", "N", "T", ")", ";", " ", "I", "N", "S", "E", "R", "T", " ", "I", "N", "T", "O", " ", "t", " ", "V", "A", "L", "U", "E", "S", " ", "(", "1", ",", "2", ")", ",", "(", "3", ",", "4", ")", ";", "\n", "I", "N", "S", "E", "R", "T", " ", "I", "N", "T", "O", " ", "t", " ", "V", "A", "L", "U", "E", "S", " ", "(", "5", ",", "6", ")", ";", "\n">>,
      <<"-", "-", " ", "r", "o", "w", "s", "\n", "I", "N", "S", "E", "R", "T", " ", "I", "N", "T", "O", " ", "u", " ", "V", "A", "L", "U", "E", "S", " ", "(", "9", ")", ";", "\n", "i", "n", "s", "e", "r", "t", " ", "i", "n", "t", "o", " ", BT, "t", BT, " ", "v", "a", "l", "u", "e", "s", " ", "(", "'", "a", ")", "b", "'", ",", "(", "1", ")", ")", ";", "\n">>,
      <<"/", "*", " ", "t", " ", "*", "/", " ", "I", "N", "S", "E", "R", "T", " ", "I", "N", "T", "O", " ", BT, "t", BT, " ", "V", "A", "L", "U", "E", "S", " ", "(", "_", "b", "i", "n", "a", "r", "y", " ", "'", "x", "'", ")", ";", "\n">>,
      <<"S", "E", "L", "E", "C", "T", " ", "1", ";", "\n">>,
      <<"I", "N", "S", "E", "R", "T", " ", "I", "N", "T", "O", " ", "t", "v", "a", "l", "u", "e", "s", " ", "(", "a", ")", " ", "V", "A", "L", "U", "E", "S", " ", "(", "7", ")", ";", "\n", "I", "N", "S", "E", "R", "T", " ", "I", "N", "T", "O", " ", "t", " ", "V", "A", "L", "U", "E", "S", " ", "(", "1", ")", ";", "\n">>,
      <<"I", "N", "S", "E", "R", "T", " ", "I", "N", "T", "O", " ", "t", "x", " ", "V", "A", "L", "U", "E", "S", " ", "(", "9", ")", ";", "\n", "I", "N", "S", "E", "R", "T", " ", "I", "N", "T", "O", " ", "t", " ", "V", "A", "L", "U", "E", "S", " ", "(", "1", ")", ";", "\n">>,
      <<"I", "N", "S", "E", "R", "T", " ", "I", "N", "T", "O", " ", "t", " ", "V", "A", "L", "U", "E", "S", " ", "(">> \o [i \in 1..(SAMPLE_MAX + 1) |-> "x"]
          \o <<")", ",", "(", "2", ")", ";", "\n">> }

\* files longer than a read window: the window of CHUNK_SIZE bytes read at
\* offset 0 ends inside the VALUES keyword of the statement, and inside its
\* first tuple
LongSampleFiles ==
    { [i \in 1..(CHUNK_SIZE - 15) |-> " "] \o <<"I", "N", "S", "E", "R", "T", " ", "I", "N", "T", "O", " ", "t", " ", "V", "A", "L", "U", "E", "S", " ", "(", "1", ")", ";", "\n">>,
      [i \in 1..(CHUNK_SIZE - 24) |-> " "]
          \o <<"I", "N", "S", "E", "R", "T", " ", "I", "N", "T", "O", " ", "t", " ", "V", "A", "L", "U", "E", "S", " ", "(", "1", ",", "2", ")", ";", "\n">> }

\* the offsets the calls start at
SampleOffsets(file) ==
    IF file \in LongSampleFiles THEN {-1, 0, 1, 100}
    ELSE (-1)..Len(file)

\* first tuples with a doubled quote, with an escaped backslash before the
\* closing quote and with an escaped quote inside a string
EscapeFiles ==
    { <<"I", "N", "S", "E", "R", "T", " ", "I", "N", "T", "O", " ", "t", " ", "V", "A", "L", "U", "E", "S", " ", "(", "'", "a", "'", "'", "b", ")", "'", ",", "2", ")", ";", "\n">>,
      <<"I", "N", "S", "E", "R", "T", " ", "I", "N", "T", "O", " ", "t", " ", "V", "A", "L", "U", "E", "S", " ", "(", "'", "a", "\\", "\\", "'", ",", "2", ")", ",", "(", "'", "x", ")", "'", ")", ";", "\n">>,
      <<"I", "N", "S", "E", "R", "T", " ", "I", "N", "T", "O", " ", "t", " ", "V", "A", "L", "U", "E", "S", " ", "(", "'", "a", "\\", "'", "b", ")", "'", ",", "2", ")", ";", "\n">>,
      <<"I", "N", "S", "E", "R", "T", " ", "I", "N", "T", "O", " ", "t", " ", "V", "A", "L", "U", "E", "S", " ", "(", "'", "a", "\\", "\\", "'", ")", ";", "\n">> }

SampleTables == {<<"t">>, <<"u", "s", "e", "r", "s">>}

SampleWindows == {16, CHUNK_SIZE}

\* the argument check, fopen and fseek
SampleStart ==
    /\ pc = "sample_call"
    /\ \E open_fails \in Fails, seek_fails \in Fails :
       \E st \in {sample_open(Deref(sample_in).start_offset,
                              Deref(sample_in).given,
                              ~open_fails, ~seek_fails)} :
          /\ sample' = st
          /\ fault_hit' = /\ Deref(sample_in).start_offset >= 0
                          /\ Deref(sample_in).given
                          /\ open_fails \/ seek_fails
          /\ pc' = IF st.returned THEN "sample_done" ELSE "sample_read"
    /\ UNCHANGED cli
    /\ UNCHANGED <<sql_file, chunk_size, faults, ctx, bytes_read, main_vars,
                   sample_in>>

\* one iteration of the read loop, and the return
SampleRead ==
    /\ pc = "sample_read"
    /\ \E read_error \in Fails :
       \E st \in {sample_read(sql_file, sample, Deref(sample_in).table_name,
                              chunk_size, ~read_error)} :
          /\ sample' = st
          /\ fault_hit' = read_error
          /\ pc' = IF st.returned THEN "sample_done" ELSE "sample_read"
    /\ UNCHANGED cli
    /\ UNCHANGED <<sql_file, chunk_size, faults, ctx, bytes_read, main_vars,
                   sample_in>>

InitSample ==
    /\ sql_file \in SampleFiles \cup LongSampleFiles \cup EscapeFiles
    /\ chunk_size \in SampleWindows
    /\ faults = "none"
    /\ fault_hit = FALSE
    /\ ctx = ZeroContext
    /\ bytes_read = 0
    /\ pc = "sample_call"
    /\ index_file = NULL
    /\ sha256_support = FALSE
    /\ run = 1
    /\ mainv = NoMain
    /\ loaded = NoLoad
    /\ history = NoHistory
    /\ prev = NoPrev
    /\ sample_in \in {Ptr([start_offset |-> n, table_name |-> T,
                             given |-> TRUE]) :
                         n \in SampleOffsets(sql_file), T \in SampleTables}
    /\ sample = NoSample
    /\ cli = NoCli

NextSample == SampleStart \/ SampleRead

SpecSample == InitSample /\ [][NextSample]_vars

\* calls in which filename or table_name may be NULL and fopen, fseek and
\* fread may fail
InitSampleErrors ==
    /\ sql_file \in SampleFiles \cup LongSampleFiles \cup EscapeFiles
    /\ chunk_size \in SampleWindows
    /\ faults = "fatal"
    /\ fault_hit = FALSE
    /\ ctx = ZeroContext
    /\ bytes_read = 0
    /\ pc = "sample_call"
    /\ index_file = NULL
    /\ sha256_support = FALSE
    /\ run = 1
    /\ mainv = NoMain
    /\ loaded = NoLoad
    /\ history = NoHistory
    /\ prev = NoPrev
    /\ sample_in \in {Ptr([start_offset |-> n, table_name |-> T,
                             given |-> g]) :
                         n \in SampleOffsets(sql_file), T \in SampleTables,
                         g \in BOOLEAN}
    /\ sample = NoSample
    /\ cli = NoCli

SpecSampleErrors == InitSampleErrors /\ [][NextSample]_vars

(***************************************************************************)
(* Claims about the row sample                                             *)
(***************************************************************************)
\* the two spellings of INSERT INTO T VALUES (
InsertPatterns(T) ==
    { <<"I", "N", "S", "E", "R", "T", " ", "I", "N", "T", "O", " ">> \o T \o <<" ", "V", "A", "L", "U", "E", "S", " ", "(">>,
      <<"I", "N", "S", "E", "R", "T", " ", "I", "N", "T", "O", " ", BT>> \o T \o <<BT, " ", "V", "A", "L", "U", "E", "S", " ", "(">> }

\* offset of the row data of the first INSERT INTO T VALUES ( statement
\* that starts at or after offset N, or -1
FirstInsertRow(file, N, T) ==
    Let(FirstOf({q \in N..(Len(file) - 1) :
                    \E pat \in InsertPatterns(T) : strncmp_eq(file, q, pat)},
                -1),
        LAMBDA q :
            IF q = -1 THEN -1
            ELSE q + Len(CHOOSE pat \in InsertPatterns(T) :
                            strncmp_eq(file, q, pat)))

\* the bytes of file[from, to) that are outside single-quoted strings
Unquoted(file, from, to) ==
    {i \in from..(to - 1) :
        /\ file[i + 1] # "'"
        /\ CountChar(file, from, i, "'") % 2 = 0}

\* offset of the parenthesis that closes the tuple whose data starts at
\* from, parentheses inside quoted strings not counted; -1 when there is
\* none
TupleEnd(file, from) ==
    FirstOf({i \in from..(Len(file) - 1) :
                /\ file[i + 1] = ")"
                /\ i \in Unquoted(file, from, i + 1)
                /\ Cardinality({j \in Unquoted(file, from, i) :
                                   file[j + 1] = "("})
                   = Cardinality({j \in Unquoted(file, from, i) :
                                     file[j + 1] = ")"})}, -1)

\* the text of the first tuple of the first INSERT INTO T VALUES ( at or
\* after N, or NULL
FirstTuple(file, N, T) ==
    Let(FirstInsertRow(file, N, T), LAMBDA from :
        IF from = -1 THEN NULL
        ELSE Let(TupleEnd(file, from), LAMBDA to :
                IF to = -1 THEN NULL
                ELSE Ptr(SubSeq(file, from + 1, to))))

\* C7: get_first_row_sample(file, N, T) returns the text of the first tuple
\* of the first INSERT INTO T VALUES ( statement that starts at or after N,
\* when that text is at most 300 characters.
C7_FirstRowSample ==
    pc = "sample_done" /\ chunk_size = CHUNK_SIZE
        /\ Deref(sample_in).start_offset >= 0 =>
        \A tuple \in {FirstTuple(sql_file, Deref(sample_in).start_offset,
                                 Deref(sample_in).table_name)} :
            /\ tuple # NULL
            /\ Len(Deref(tuple)) <= SAMPLE_MAX
            /\ ~strncmp_eq(Deref(tuple), 0, <<"_", "b", "i", "n", "a", "r", "y", " ">>)
            => sample.result = tuple

\* C15: the sample is "BLOB" when the captured tuple begins with "_binary ",
\* otherwise the first min(300, length) characters of the tuple; it is never
\* longer than 300 characters.
C15_SampleText ==
    pc = "sample_done" =>
        /\ sample.row # NULL =>
              sample.result =
                 IF strncmp_eq(Deref(sample.row), 0, <<"_", "b", "i", "n", "a", "r", "y", " ">>)
                 THEN Ptr(<<"B", "L", "O", "B">>)
                 ELSE Ptr(SubSeq(Deref(sample.row), 1,
                                 Min({SAMPLE_MAX, Len(Deref(sample.row))})))
        /\ sample.result # NULL => Len(Deref(sample.result)) <= SAMPLE_MAX

\* a call has captured a tuple of more than 300 characters
C15_Witness ==
    /\ pc = "sample_done"
    /\ sample.row # NULL
    /\ Len(Deref(sample.row)) > SAMPLE_MAX
    /\ sample.result # NULL

\* first offset at or after p that holds no white space
SkipWs(file, p) ==
    FirstOf({i \in p..(Len(file) - 1) : ~IsSpace(file[i + 1])}, Len(file))

\* an INSERT INTO T VALUES ( starts at offset q: keywords in either case,
\* the name with or without backticks, any white space between the words
MatchingInsert(file, q, T) ==
    /\ strncasecmp_eq(file, q, <<"I", "N", "S", "E", "R", "T", " ", "I", "N", "T", "O">>)
    /\ \E name \in {T, <<BT>> \o T \o <<BT>>} :
          /\ strncmp_eq(file, SkipWs(file, q + INSERT_INTO_LEN), name)
          /\ \E values \in {SkipWs(file, SkipWs(file, q + INSERT_INTO_LEN)
                                        + Len(name))} :
                /\ strncasecmp_eq(file, values, <<"V", "A", "L", "U", "E", "S">>)
                /\ strncmp_eq(file, SkipWs(file, values + VALUES_LEN), <<"(">>)

NameEnd(file, q) ==
    Let(find_next_token(file, q + CREATE_TABLE_LEN), LAMBDA token_start :
        IF token_start = -1 THEN -1
        ELSE token_start + get_token_length(file, token_start, TRUE))

\* its table name, backticks removed, or NULL
StatementName(file, q) ==
    Let(find_next_token(file, q + CREATE_TABLE_LEN), LAMBDA token_start :
        IF token_start = -1 \/ NameEnd(file, q) = token_start THEN NULL
        ELSE Let(SubSeq(file, token_start + 1, NameEnd(file, q)), LAMBDA raw :
                IF raw = <<BT>> THEN NULL ELSE Ptr(strip_backticks(raw))))

\* offset of the ; that ends the statement, or the length of the file
StatementEnd(file, q) ==
    FirstOf({i \in Unquoted(file, q, Len(file)) : file[i + 1] = ";"},
            Len(file))

\* offset of the byte after the parenthesis that closes the column list of
\* the statement at q, parentheses inside quoted strings not counted; -1
\* when the statement has no column list or the list is not closed
ColumnListEnd(file, q) ==
    Let(FirstOf({i \in NameEnd(file, q)..(StatementEnd(file, q) - 1) :
                    file[i + 1] = "("}, -1),
        LAMBDA open :
            IF NameEnd(file, q) = -1 \/ open = -1 THEN -1
            ELSE Let(TupleEnd(file, open + 1), LAMBDA close :
                    IF close = -1 \/ close > StatementEnd(file, q) THEN -1
                    ELSE close + 1))

\* the offsets of the CREATE TABLE keywords the scanner accepts
Statements(file) ==
    {q \in 0..(Len(file) - 1) : keyword_at(file, q, STATE_CODE)}

\* the tables of the index whose column list was parsed into columns
ParsedTables ==
    {i \in 1..Len(ctx.index) :
        /\ ctx.index[i].table_info # NULL
        /\ Len(Deref(ctx.index[i].table_info).columns) > 0}

\* C13: the end_offset of every table whose column list was parsed is the
\* file offset of the byte after the closing parenthesis of the column list
\* of a statement for that table, whatever was consumed or carried over.
C13_EndOffset ==
    \A i \in ParsedTables :
        \E q \in Statements(sql_file) :
            /\ StatementName(sql_file, q) = Ptr(ctx.index[i].name)
            /\ ColumnListEnd(sql_file, q) =
                   Deref(ctx.index[i].table_info).end_offset

\* the statements of the file name pairwise different tables
DistinctNames(file) ==
    \A q1, q2 \in Statements(file) :
        q1 # q2 => StatementName(file, q1) # StatementName(file, q2)

\* the columns that one pass of parse_table_columns over the column list of
\* the statement at q yields
ColumnsOnce(file, q) ==
    Let(find_table_body_start(file, NameEnd(file, q)), LAMBDA body_start :
        IF NameEnd(file, q) = -1 \/ body_start = -1 THEN <<>>
        ELSE Let(find_table_body_end(file, body_start), LAMBDA body_end :
                IF body_end = -1 THEN <<>>
                ELSE parse_table_columns(file,
                        [name |-> <<>>, columns |-> <<>>, line_number |-> 0,
                         end_offset |-> -1],
                        body_start, body_end, -1).table_info.columns))

\* C14: no two TABLE entries of the index have the same name, and a
\* statement, however often it is entered again after a carry-over, has one
\* entry that holds each of its columns once.
C14_RetryIdempotence ==
    /\ \A i, j \in 1..Len(ctx.index) :
          /\ i # j
          /\ ctx.index[i].type = TABLE
          /\ ctx.index[j].type = TABLE
          => ctx.index[i].name # ctx.index[j].name
    /\ DistinctNames(sql_file) =>
          \A i \in ParsedTables :
              \E q \in Statements(sql_file) :
                  /\ StatementName(sql_file, q) = Ptr(ctx.index[i].name)
                  /\ Deref(ctx.index[i].table_info).columns
                        = ColumnsOnce(sql_file, q)

\* the scan of the users example in reads of 64 bytes is done: the
\* statement was entered with its column list cut off, carried over and
\* entered again
C14_Witness ==
    /\ ScanDone
    /\ chunk_size < Len(sql_file)
    /\ sql_file = ColumnListFile(UsersExample)
    /\ ParsedTables # {}

\* offset of the parenthesis that opens the column list of the statement
\* at q, or -1
ColumnListStart(file, q) ==
    IF ColumnListEnd(file, q) = -1 THEN -1
    ELSE FirstOf({i \in NameEnd(file, q)..(StatementEnd(file, q) - 1) :
                     file[i + 1] = "("}, -1)

\* the file offset of the byte after the last byte of the buffer
BufferEnd == ctx.global_offset + ctx.buffer_data_len

\* the buffer of the call of process_chunk that is about to run holds the
\* first byte of the statement at q, a statement with a column list, but
\* not yet the parenthesis that closes the list
ConstructCut(q) ==
    /\ pc = "process"
    /\ ctx.global_offset <= q
    /\ q < BufferEnd
    /\ keyword_at(sql_file, q, STATE_CODE)
    /\ BufferEnd < ColumnListEnd(sql_file, q)

\* C19: a call of process_chunk whose buffer ends inside a statement (in the
\* keyword, in the table name or before the closing parenthesis of the
\* column list) while the file has more data reports no byte of the
\* statement as processed: global_offset stays at or before the keyword.
C19_NoPartialConstruct ==
    [][\A q \in 0..(Len(sql_file) - 1) :
          ConstructCut(q) /\ pc' # "crashed" => ctx'.global_offset <= q]_vars

\* the buffer holds the keyword and the table name of the statement at q and
\* the white space after the name, but not the opening parenthesis
ParenAbsent(q) ==
    /\ ConstructCut(q)
    /\ NameEnd(sql_file, q) < BufferEnd
    /\ BufferEnd <= ColumnListStart(sql_file, q)

\* process_chunk is about to run on a buffer that holds the statement at q
\* from its keyword to its opening parenthesis
Retried(q) ==
    /\ pc = "process"
    /\ ctx.global_offset <= q
    /\ q < BufferEnd
    /\ keyword_at(sql_file, q, STATE_CODE)
    /\ ColumnListEnd(sql_file, q) # -1
    /\ ColumnListStart(sql_file, q) < BufferEnd

\* C20: after a call of process_chunk whose buffer holds a table name but
\* not the opening parenthesis that follows it, process_chunk is called
\* again on a buffer that holds the statement from its keyword on, the
\* parenthesis included.
C20_ParenRetried ==
    (\E q \in 0..(Len(sql_file) - 1) : ParenAbsent(q))
        ~> (\E q \in 0..(Len(sql_file) - 1) : Retried(q))

\* the end_offset of entry i of the index, -1 for an entry without
\* table_info
EndOffsetOf(index, i) ==
    IF index[i].table_info = NULL THEN -1
    ELSE Deref(index[i].table_info).end_offset

\* C21: the end_offset of a table entry stays -1 until a column list of a
\* statement for that table has been found with its closing parenthesis,
\* and once it is assigned no later step of the scan changes it.
C21_EndOffsetAssignedOnce ==
    [][/\ \A i \in 1..Len(ctx.index) :
             EndOffsetOf(ctx.index, i) # -1 /\ i <= Len(ctx'.index) =>
                 EndOffsetOf(ctx'.index, i) = EndOffsetOf(ctx.index, i)
       /\ \A i \in 1..Len(ctx'.index) :
             EndOffsetOf(ctx'.index, i) # -1 =>
                 \E q \in 0..(Len(sql_file) - 1) :
                     /\ keyword_at(sql_file, q, STATE_CODE)
                     /\ StatementName(sql_file, q) = Ptr(ctx'.index[i].name)
                     /\ ColumnListEnd(sql_file, q) # -1]_vars

\* the number of newline bytes of the file before offset q
NewlinesBefore(file, q) == Cardinality({i \in 1..q : file[i] = "\n"})

\* C22: the line number of every table entry is 1 plus the number of
\* newline bytes before the keyword of a statement for that table, for every
\* read size.
C22_LineNumbers ==
    \A i \in 1..Len(ctx.index) :
        ctx.index[i].type = TABLE =>
            \E q \in 0..(Len(sql_file) - 1) :
                /\ keyword_at(sql_file, q, STATE_CODE)
                /\ StatementName(sql_file, q) = Ptr(ctx.index[i].name)
                /\ ctx.index[i].line_number = 1 + NewlinesBefore(sql_file, q)

\* the text between the parentheses of the column list of the statement at q
TableBody(file, q) ==
    SubSeq(file, ColumnListStart(file, q) + 2, ColumnListEnd(file, q) - 1)

\* the number of parentheses that are open in front of position i of body
DepthAt(body, i) ==
    Cardinality({j \in 1..(i - 1) : body[j] = "("})
    - Cardinality({j \in 1..(i - 1) : body[j] = ")"})

\* the positions of the commas of body at parenthesis depth 0
TopCommas(body) ==
    {i \in 1..Len(body) : body[i] = "," /\ DepthAt(body, i) = 0}

\* the fragment of body that begins after position s (0 or a top comma)
FragmentAt(body, s) ==
    SubSeq(body, s + 1,
           FirstOf({c \in TopCommas(body) : c > s}, Len(body) + 1) - 1)

\* the fragments of body, each named by the position in front of it
FragmentStarts(body) == {0} \cup TopCommas(body)

WordLetters == Range(LowerLetters) \cup Range(UpperLetters) \cup {"_"}

\* the word a fragment begins with
FirstWord(frag) ==
    Let(FirstOf({i \in 1..Len(frag) : ~IsSpace(frag[i])}, 0), LAMBDA b :
        IF b = 0 THEN <<>>
        ELSE SubSeq(frag, b,
                    FirstOf({j \in b..Len(frag) : frag[j] \notin WordLetters},
                            Len(frag) + 1) - 1))

ConstraintWords ==
    {<<"P", "R", "I", "M", "A", "R", "Y">>, <<"U", "N", "I", "Q", "U", "E">>, <<"C", "O", "N", "S", "T", "R", "A", "I", "N", "T">>, <<"K", "E", "Y">>, <<"F", "O", "R", "E", "I", "G", "N">>}

IsConstraintFragment(frag) ==
    \E w \in ConstraintWords : strcasecmp_eq(FirstWord(frag), w)

\* the number of words of a fragment, separated by white space
WordCount(frag) ==
    Cardinality({i \in 1..Len(frag) :
                    /\ ~IsSpace(frag[i])
                    /\ i = 1 \/ IsSpace(frag[i - 1])})

\* the fragments that are column definitions with a name and a type
ColumnFragments(body) ==
    {s \in FragmentStarts(body) :
        /\ ~IsConstraintFragment(FragmentAt(body, s))
        /\ WordCount(FragmentAt(body, s)) >= 2}

\* C23: a fragment that begins with PRIMARY, UNIQUE, CONSTRAINT, KEY or
\* FOREIGN adds no column: the table has as many columns as its body has
\* other fragments with a name and a type.
C23_ConstraintsAddNoColumn ==
    ScanDone /\ chunk_size = CHUNK_SIZE /\ sql_file \in FragmentFiles =>
        /\ Len(ctx.index) = 1
        /\ Len(Deref(ctx.index[1].table_info).columns) =
               Cardinality(ColumnFragments(TableBody(sql_file, 0)))

\* the parenthesised argument list of a fragment, from its first opening
\* parenthesis through the matching closing one, or the empty text
ArgumentList(frag) ==
    Let(FirstOf({i \in 1..Len(frag) : frag[i] = "("}, 0), LAMBDA open :
        IF open = 0 THEN <<>>
        ELSE Let(FirstOf({j \in (open + 1)..Len(frag) :
                             frag[j] = ")" /\ DepthAt(frag, j) = 1}, 0),
                 LAMBDA close :
                    IF close = 0 THEN <<>> ELSE SubSeq(frag, open, close)))

\* text holds part
Contains(text, part) ==
    \E i \in 0..(Len(text) - Len(part)) :
        SubSeq(text, i + 1, i + Len(part)) = part

\* C24: the body of a table is split at the commas of parenthesis depth 0
\* only: there is one column for each fragment, named by the first word of
\* the fragment, and its type holds the argument list of the fragment
\* through the closing parenthesis.
C24_TopLevelCommas ==
    ScanDone /\ chunk_size = CHUNK_SIZE /\ sql_file \in TypeFiles =>
        /\ Len(ctx.index) = 1
        /\ LET cols == Deref(ctx.index[1].table_info).columns
               body == TableBody(sql_file, 0)
           IN /\ Len(cols) = Cardinality(FragmentStarts(body))
              /\ \A s \in FragmentStarts(body) :
                    \E k \in 1..Len(cols) :
                        /\ cols[k].name = FirstWord(FragmentAt(body, s))
                        /\ Contains(cols[k].type,
                                    ArgumentList(FragmentAt(body, s)))

\* the buffer of the call of process_chunk that is about to run holds the
\* keyword of a statement for the table called name
StatementInBuffer(name) ==
    \E q \in ctx.global_offset..(BufferEnd - 1) :
        /\ keyword_at(sql_file, q, STATE_CODE)
        /\ StatementName(sql_file, q) = Ptr(name)

\* C28: a step of the scan removes no entry and changes no field of an
\* entry, unless the buffer it handles holds a statement for the table of
\* that entry.
C28_OtherEntriesUnchanged ==
    [][pc = "process" =>
          /\ Len(ctx'.index) >= Len(ctx.index)
          /\ \A i \in 1..Len(ctx.index) :
                \/ ctx'.index[i] = ctx.index[i]
                \/ StatementInBuffer(ctx.index[i].name)]_vars

\* the file is made of CREATE TABLE statements with a table name, each
\* ended by a semicolon, with white space between them, and no two of them
\* name the same table
MadeOfStatements(file) ==
    /\ Statements(file) # {}
    /\ DistinctNames(file)
    /\ \A q \in Statements(file) :
          /\ StatementName(file, q) # NULL
          /\ StatementEnd(file, q) < Len(file)
          /\ \A q2 \in Statements(file) :
                q < q2 => StatementEnd(file, q) < q2
    /\ \A i \in 0..(Len(file) - 1) :
          \/ IsSpace(file[i + 1])
          \/ \E q \in Statements(file) :
                q <= i /\ i <= StatementEnd(file, q)

\* the offset of the keyword of statement number k of the file
StatementAt(file, k) ==
    CHOOSE q \in Statements(file) :
        Cardinality({q2 \in Statements(file) : q2 < q}) = k - 1

\* C29: for a file made of CREATE TABLE statements with pairwise distinct
\* names the index holds one TABLE entry for each statement, in the order
\* of the file, and the columns of each entry are those of the column list
\* of its own statement (none when the statement has no column list).
C29_StatementIsolation ==
    ScanDone /\ chunk_size = CHUNK_SIZE /\ MadeOfStatements(sql_file) =>
        /\ Len(ctx.index) = Cardinality(Statements(sql_file))
        /\ \A k \in 1..Len(ctx.index) :
              /\ k <= Cardinality(Statements(sql_file))
              /\ ctx.index[k].type = TABLE
              /\ Ptr(ctx.index[k].name) =
                     StatementName(sql_file, StatementAt(sql_file, k))
              /\ Deref(ctx.index[k].table_info).columns =
                     IF ColumnListEnd(sql_file, StatementAt(sql_file, k)) = -1
                     THEN <<>>
                     ELSE ColumnsOnce(sql_file, StatementAt(sql_file, k))

\* the bytes of an undelimited identifier
IdentifierBytes ==
    {LowerLetters[i] : i \in 1..26} \cup {UpperLetters[i] : i \in 1..26}
    \cup {Digits[i] : i \in 1..10} \cup {"_", ".", "$"}

\* the delimiter that closes an identifier opened by the delimiter c
ClosingDelimiter(c) == IF c = "[" THEN "]" ELSE c

\* offset of the delimiter that closes the identifier opened at p: the
\* first closing delimiter after p that is not one of a doubled pair
DelimiterEnd(file, p) ==
    Let(ClosingDelimiter(file[p + 1]), LAMBDA close :
        FirstOf({i \in (p + 1)..(Len(file) - 1) :
                    /\ file[i + 1] = close
                    /\ i + 1 = Len(file) \/ file[i + 2] # close
                    /\ (i - LastOf({j \in p..(i - 1) :
                                       j = p \/ file[j + 1] # close}, p)) % 2
                           = 1}, -1))

\* the identifier that starts at offset p without its delimiters: NULL when
\* its closing delimiter is missing
IdentifierAt(file, p) ==
    IF file[p + 1] \in {BT, "\"", "["}
    THEN IF DelimiterEnd(file, p) = -1 THEN NULL
         ELSE Ptr(SubSeq(file, p + 2, DelimiterEnd(file, p)))
    ELSE Ptr(SubSeq(file, p + 1,
                    FirstOf({i \in p..(Len(file) - 1) :
                                file[i + 1] \notin IdentifierBytes},
                            Len(file))))

\* the file is one statement that starts the file and ends with a semicolon
OneStatement(file) ==
    /\ Statements(file) = {0}
    /\ StatementEnd(file, 0) < Len(file)
    /\ find_next_token(file, CREATE_TABLE_LEN) # -1

\* C30: the name recorded for a statement is the identifier after the
\* keyword without its delimiters: the text between backticks, double
\* quotes or brackets, or the run of alphanumerics, _, . and $.
C30_NameWithoutDelimiters ==
    ScanDone /\ chunk_size = CHUNK_SIZE /\ OneStatement(sql_file) =>
        \A k \in 1..Len(ctx.index) :
            Ptr(ctx.index[k].name) =
                IdentifierAt(sql_file,
                             find_next_token(sql_file, CREATE_TABLE_LEN))

\* C34: the data never exceeds the buffer; the free space of the buffer is
\* at least the read size before every read; and the size of the buffer
\* changes only by doubling.
C34_BufferBounds ==
    /\ [](/\ ctx.buffer_data_len <= ctx.buffer_size
          /\ Len(ctx.buffer) = ctx.buffer_data_len)
    /\ [][/\ pc = "read" /\ pc' = "process" =>
                ctx'.buffer_size - ctx.buffer_data_len >= chunk_size
           /\ \/ ctx'.buffer_size = ctx.buffer_size
              \/ ctx'.buffer_size = 2 * ctx.buffer_size]_vars

\* a read has grown the buffer, which holds more bytes than its margin
C34_Witness ==
    /\ pc = "process"
    /\ ctx.buffer_size = 2 * (chunk_size + BUFFER_EXTRA_MARGIN)
    /\ ctx.buffer_data_len > BUFFER_EXTRA_MARGIN

\* C35: after every read and at the end of every iteration of the read loop
\* global_offset + buffer_data_len is the number of bytes read from the
\* file and the buffer holds the bytes of the file from global_offset on.
C35_CarryOver ==
    pc \in {"read", "process", "scan_done"} =>
        /\ ctx.global_offset + ctx.buffer_data_len = ctx.file_pos
        /\ ctx.buffer = SubSeq(sql_file, ctx.global_offset + 1,
                               ctx.global_offset + ctx.buffer_data_len)

\* an iteration has ended with bytes carried over behind consumed bytes
C35_Witness ==
    /\ pc = "read"
    /\ ctx.global_offset > 0
    /\ ctx.buffer_data_len > 0
    /\ ctx.file_pos = Len(sql_file)

\* C36: no step of the scan decreases global_offset or current_line, and
\* global_offset never exceeds the number of bytes read from the file.
C36_CursorForward ==
    [][/\ ctx'.global_offset >= ctx.global_offset
       /\ ctx'.current_line >= ctx.current_line
       /\ ctx'.global_offset <= ctx'.file_pos]_vars

\* process_chunk has returned early past the first line of the file: the
\* bytes from the keyword of a statement on are carried over to the next fill
C36_Witness ==
    /\ pc = "read"
    /\ ctx.current_line > 1
    /\ ctx.global_offset > 0
    /\ ctx.buffer_data_len > 0
    /\ keyword_at(sql_file, ctx.global_offset, STATE_CODE)

(***************************************************************************)
(* Claims about the statement the row sample is taken from                 *)
(***************************************************************************)
\* an INSERT INTO statement starts at offset q whose target identifier,
\* without its delimiters, is T
InsertInto(file, q, T) ==
    /\ strncasecmp_eq(file, q, <<"I", "N", "S", "E", "R", "T", " ", "I", "N", "T", "O">>)
    /\ SkipWs(file, q + INSERT_INTO_LEN) < Len(file)
    /\ IdentifierAt(file, SkipWs(file, q + INSERT_INTO_LEN)) = Ptr(T)

\* the text row is the start of a parenthesised tuple of the statement
\* that starts at q
TupleOf(file, q, row) ==
    \E d \in (q + 1)..StatementEnd(file, q) :
        /\ file[d] = "("
        /\ d + Len(row) <= Len(file)
        /\ SubSeq(file, d + 1, d + Len(row)) = row

\* C31: a sample is taken from a tuple of an INSERT INTO statement, at or
\* after the offset, whose target identifier is table_name exactly; a
\* statement for a table whose name only starts with table_name is never
\* selected.
C31_ExactTableName ==
    pc = "sample_done" /\ sample.row # NULL =>
        \E q \in Deref(sample_in).start_offset..(Len(sql_file) - 1) :
            /\ InsertInto(sql_file, q, Deref(sample_in).table_name)
            /\ TupleOf(sql_file, q, Deref(sample.row))

\* C32: the sample of a call that reads windows of CHUNK_SIZE bytes is the
\* sample of a search of the whole remainder of the file at once.
C32_WindowIndependence ==
    pc = "sample_done" /\ chunk_size = CHUNK_SIZE =>
        sample.result =
            get_first_row_sample(sql_file, Deref(sample_in).start_offset,
                                 Deref(sample_in).table_name,
                                 Len(sql_file) + 1)

\* the number of backslashes that precede offset i without a gap, counted
\* back to offset from
BackslashesBefore(file, from, i) ==
    i - 1 - LastOf({j \in from..(i - 1) : file[j + 1] # "\\"}, from - 1)

\* the byte at offset i is escaped by a backslash: an odd number of
\* backslashes precedes it
Escaped(file, from, i) == BackslashesBefore(file, from, i) % 2 = 1

\* offset of the quote that ends the string opened at offset open: the
\* first quote of the same kind that is not escaped by a backslash and is
\* not one of a doubled pair; -1 when there is none
StringEnd(file, open) ==
    FirstOf({i \in (open + 1)..(Len(file) - 1) :
                /\ file[i + 1] = file[open + 1]
                /\ ~Escaped(file, open + 1, i)
                /\ i + 1 = Len(file) \/ file[i + 2] # file[open + 1]
                /\ (i - LastOf({j \in open..(i - 1) :
                                   \/ j = open
                                   \/ file[j + 1] # file[open + 1]
                                   \/ Escaped(file, open + 1, j)}, open)) % 2
                       = 1}, -1)

\* offset of the first closing parenthesis at depth 0 outside every string,
\* from offset p, which is outside a string at the given depth; -1 when
\* there is none
RECURSIVE RowEnd(_, _, _)
RowEnd(file, p, depth) ==
    Let(FirstOf({i \in p..(Len(file) - 1) : file[i + 1] \in Quotes},
                Len(file)),
        LAMBDA open :
    Let(FirstOf({i \in p..(open - 1) :
                    /\ file[i + 1] = ")"
                    /\ DepthAfter(file, p, i + 1, depth) = 0}, -1),
        LAMBDA close :
            IF close # -1 THEN close
            ELSE IF open >= Len(file) \/ StringEnd(file, open) = -1 THEN -1
            ELSE RowEnd(file, StringEnd(file, open) + 1,
                        DepthAfter(file, p, open, depth))))

\* the remainder of the file from the offset of the call
Remainder == SubSeq(sql_file, Deref(sample_in).start_offset + 1, Len(sql_file))

\* C33: the tuple of the statement that was found ends at the first closing
\* parenthesis at depth 0 outside every string, where a quote after an
\* escaping backslash and a doubled quote do not end a string and a quote
\* after an escaped backslash does.
C33_EscapesInTuple ==
    pc = "sample_done" /\ chunk_size = CHUNK_SIZE
        /\ Deref(sample_in).start_offset >= 0
        /\ Len(Remainder) \in 1..CHUNK_SIZE =>
        \A from \in {search_buffer(Remainder, 0,
                                   Deref(sample_in).table_name)} :
            from # -1 =>
                sample.row =
                    IF RowEnd(Remainder, from, 1) = -1 THEN NULL
                    ELSE Ptr(SubSeq(Remainder, from + 1,
                                    RowEnd(Remainder, from, 1)))

(***************************************************************************)
(* Specification of a session of the REPL                                  *)
(***************************************************************************)
\* the largest number of tables of an index: two pages and one table
MaxTables == 41

\* the numbers of tables of the index: none, one, a full page, a page and
\* one table, two pages and one table
CliCounts == {0, 1, PAGE_SIZE, PAGE_SIZE + 1, MaxTables}

\* the lines typed, without their newline
CliInputs ==
    { <<"l", "i", "s", "t">>, <<"m", "o", "r", "e">>, <<"b", "a", "c", "k">>, <<"h", "e", "l", "p">>, <<>>, <<"s", "e", "l", "e", "c", "t", "e", "d">>, <<"m", "o", "r", "e", " ">>,
      <<"s", "e", "l", "e", "c", "t", " ", "1">>, <<"s", "e", "l", "e", "c", "t", " ", "2">>, <<"s", "e", "l", "e", "c", "t", " ", "2", "1">>, <<"s", "e", "l", "e", "c", "t", " ", "4", "1">>, <<"s", "e", "l", "e", "c", "t", " ", "0">>,
      <<"s", "e", "l", "e", "c", "t", " ", "-", "1">>, <<"s", "e", "l", "e", "c", "t", " ", "4", "2">>, <<"s", "e", "l", "e", "c", "t", " ", "x">>, <<"s", "e", "l", "e", "c", "t", " ", "2", "x">>,
      <<"s", "e", "l", "e", "c", "t", " ", "4", "2", "9", "4", "9", "6", "7", "2", "9", "7">>, <<"s", "e", "l", "e", "c", "t", " ", "9", "9", "9", "9", "9", "9", "9", "9", "9", "9", "9", "9", "9", "9", "9", "9", "9", "9", "9", "9">> }

\* a line other than quit is read and handled
CliCommand ==
    /\ pc = "cli"
    /\ \E input \in CliInputs : cli' \in cli_command(cli, input)
    /\ pc' = "cli"
    /\ UNCHANGED <<scan_vars, main_vars, sample_vars>>

\* quit is read, or fgets returns NULL at the end of the input
CliQuit ==
    /\ pc = "cli"
    /\ \E input \in {Ptr(<<"q", "u", "i", "t">>), NULL} : cli' = [cli EXCEPT !.input = input]
    /\ pc' = "cli_done"
    /\ UNCHANGED <<scan_vars, main_vars, sample_vars>>

InitCli ==
    /\ sql_file = <<>>
    /\ chunk_size = CHUNK_SIZE
    /\ faults = "none"
    /\ fault_hit = FALSE
    /\ ctx = ZeroContext
    /\ bytes_read = 0
    /\ pc = "cli"
    /\ index_file = NULL
    /\ sha256_support = FALSE
    /\ run = 1
    /\ mainv = NoMain
    /\ loaded = NoLoad
    /\ history = NoHistory
    /\ prev = NoPrev
    /\ sample_in = NULL
    /\ sample = NoSample
    /\ cli \in {init_cli(count) : count \in CliCounts}

NextCli == CliCommand \/ CliQuit

SpecCli == InitCli /\ [][NextCli]_vars

\* the line is select followed by a decimal number
IsSelectNumber(input) ==
    /\ strncmp_eq(input, 0, <<"s", "e", "l", "e", "c", "t", " ">>)
    /\ Len(input) > 7
    /\ \/ \A i \in 8..Len(input) : input[i] \in Range(Digits)
       \/ /\ input[8] = "-"
          /\ Len(input) > 8
          /\ \A i \in 9..Len(input) : input[i] \in Range(Digits)

\* the number of the line is one of 1..count
NumberInRange(input, count) ==
    /\ input[8] # "-"
    /\ Len(input) - 7 <= 9
    /\ DigitsValue(SubSeq(input, 8, Len(input))) \in 1..count

\* C39: in the REPL page >= 0, page = 0 or page * PAGE_SIZE < count, and
\* selected_table is 0 or an index of a table; more on the last page, back
\* on the first page and select N with N outside 1..count leave page and
\* selected_table as they are.
C39_ReplState ==
    /\ [](pc \in {"cli", "cli_done"} =>
            /\ cli.page >= 0
            /\ cli.page = 0 \/ cli.page * PAGE_SIZE < cli.count
            /\ cli.selected_table = 0
                  \/ cli.selected_table \in 0..(cli.count - 1))
    /\ [][pc = "cli" /\ pc' = "cli" /\
            \/ /\ cli'.input = Ptr(<<"m", "o", "r", "e">>)
               /\ (cli.page + 1) * PAGE_SIZE >= cli.count
            \/ /\ cli'.input = Ptr(<<"b", "a", "c", "k">>)
               /\ cli.page = 0
            \/ /\ IsSelectNumber(Deref(cli'.input))
               /\ ~NumberInRange(Deref(cli'.input), cli.count)
          => /\ cli'.page = cli.page
             /\ cli'.selected_table = cli.selected_table]_vars

====
